---- MODULE Spec2Model ----
(***************************************************************************)
(* A model of csdmpy's CSDM container (src/csdmpy/csdm.py): its typed      *)
(* lists, the construction methods add_dimension/add_dependent_variable    *)
(* and the arithmetic operators.  Objects live in a heap and are addressed *)
(* by reference, so that copies and aliases are told apart.  Numbers are   *)
(* exact rationals <<numerator, denominator>>.                             *)
(***************************************************************************)
EXTENDS Integers, Sequences, FiniteSets, TLC

VARIABLES heap, hist

vars == <<heap, hist>>

(***************************************************************************)
(* Bounds of the model.                                                    *)
(***************************************************************************)
\* calls made on the containers in a run of the arithmetic specification
MaxCalls == 1
\* calls made on the lists in a run of the list specification
MaxListCalls == 2
\* add_dimension/add_dependent_variable calls in a run of the build specification
MaxBuildCalls == 3
\* calls made in one behaviour of the split specification
MaxSplitCalls == 3
\* calls made in one behaviour of the copy specification: the copy and the changes
MaxCopyCalls == 3
\* calls made in one behaviour of the numpy specification
MaxNumpyCalls == 1
\* constructions in one behaviour of the version specification
MaxVersionCalls == 2
\* calls made in one behaviour of the equality specification
MaxEqCalls == 2
\* calls made in one behaviour of the specification of arithmetic on split results
MaxViewCalls == 2
\* calls made in one behaviour of the serialization specification
MaxDictCalls == 2
\* calls in a behaviour of the round trip through a document
MaxTripCalls == 3
\* apodization calls made in one behaviour
MaxApodCalls == 1

(***************************************************************************)
(* Exact rational arithmetic: the numeric values of components, scalars    *)
(* and unit conversion factors.                                            *)
(***************************************************************************)
Abs(x) == IF x < 0 THEN -x ELSE x

RECURSIVE GCD(_, _)
GCD(a, b) == IF b = 0 THEN a ELSE GCD(b, a % b)

Rat(n, d) ==
    LET s == IF d < 0 THEN -1 ELSE 1
        g == GCD(Abs(n), Abs(d))
    IN  <<(s * n) \div g, (s * d) \div g>>

RatAdd(x, y) == Rat(x[1] * y[2] + y[1] * x[2], x[2] * y[2])
RatNeg(x) == <<-x[1], x[2]>>
RatSub(x, y) == RatAdd(x, RatNeg(y))
RatMul(x, y) == Rat(x[1] * y[1], x[2] * y[2])
RatInv(x) == Rat(x[2], x[1])
RatDiv(x, y) == RatMul(x, RatInv(y))

RECURSIVE RatPow(_, _)
RatPow(x, e) ==
    IF e = 0 THEN <<1, 1>>
    ELSE IF e < 0 THEN RatPow(RatInv(x), -e)
    ELSE RatMul(x, RatPow(x, e - 1))

One == <<1, 1>>

(***************************************************************************)
(* Units.  A unit is a product of powers of named units; its physical type *)
(* is the vector of the exponents of the physical dimensions, its scale    *)
(* the numeric factor to the coherent unit of that type.                   *)
(***************************************************************************)
UnitNames == {"s", "min", "m", "pct"}

\* min is 60 s; pct (percent) is the dimensionless unit 1/100
NameScale(n) ==
    IF n = "min" THEN <<60, 1>> ELSE IF n = "pct" THEN <<1, 100>> ELSE <<1, 1>>

NoUnit == [n \in UnitNames |-> 0]
U(name) == [n \in UnitNames |-> IF n = name THEN 1 ELSE 0]

physical_type(u) == [time |-> u["s"] + u["min"], length |-> u["m"]]

\* the physical type "dimensionless"
dimensionless == [time |-> 0, length |-> 0]

UnitScale(u) ==
    RatMul(RatMul(RatPow(NameScale("s"), u["s"]), RatPow(NameScale("pct"), u["pct"])),
           RatMul(RatPow(NameScale("min"), u["min"]), RatPow(NameScale("m"), u["m"])))

\* unit.to(target) is defined only between units of one physical type
Convertible(u, target) == physical_type(u) = physical_type(target)
UnitTo(u, target) == RatDiv(UnitScale(u), UnitScale(target))

UnitMul(u, v) == [n \in UnitNames |-> u[n] + v[n]]
UnitDiv(u, v) == [n \in UnitNames |-> u[n] - v[n]]

(***************************************************************************)
(* Sequence helpers.                                                       *)
(***************************************************************************)
Reverse(s) == [i \in 1..Len(s) |-> s[Len(s) + 1 - i]]

RECURSIVE Prod(_)
Prod(s) == IF s = <<>> THEN 1 ELSE Head(s) * Prod(Tail(s))

\* the positions of s that satisfy Test, in order
Positions(s, Test(_)) == SelectSeq([j \in 1..Len(s) |-> j], Test)

(***************************************************************************)
(* numpy arrays.  An array is a shape and its elements in row-major order; *)
(* element k (from 0) of an array of shape s has the coordinate            *)
(* Coord(k, s, j) (from 0) on axis j (from 1).                             *)
(***************************************************************************)
Stride(s, j) == Prod(SubSeq(s, j + 1, Len(s)))
Coord(k, s, j) == (k \div Stride(s, j)) % s[j]

RECURSIVE Flat(_, _, _)
Flat(c, s, j) == IF j > Len(s) THEN 0 ELSE c[j] * Stride(s, j) + Flat(c, s, j + 1)

\* a numpy axis number of an array with ndim axes, as a position from 1
ValidAxis(a, ndim) == -ndim <= a /\ a < ndim
AxisPosition(a, ndim) == IF a < 0 THEN a + ndim + 1 ELSE a + 1

RatLess(x, y) == x[1] * y[2] < y[1] * x[2]

RECURSIVE RatSum(_)
RatSum(v) == IF v = <<>> THEN <<0, 1>> ELSE RatAdd(Head(v), RatSum(Tail(v)))
RECURSIVE RatProd(_)
RatProd(v) == IF v = <<>> THEN <<1, 1>> ELSE RatMul(Head(v), RatProd(Tail(v)))
RatMean(v) == RatDiv(RatSum(v), <<Len(v), 1>>)

\* np.max, np.min, np.sum, np.mean, np.var and np.prod of the values v
\* (np.std, the square root of np.var, has no exact value in the rationals)
Aggregate(func, v) ==
    IF func = "max" THEN CHOOSE x \in {v[k] : k \in 1..Len(v)} :
                             \A k \in 1..Len(v) : ~RatLess(x, v[k])
    ELSE IF func = "min" THEN CHOOSE x \in {v[k] : k \in 1..Len(v)} :
                                  \A k \in 1..Len(v) : ~RatLess(v[k], x)
    ELSE IF func = "sum" THEN RatSum(v)
    ELSE IF func = "prod" THEN RatProd(v)
    ELSE IF func = "mean" THEN RatMean(v)
    ELSE RatMean([k \in 1..Len(v) |->
                      RatMul(RatSub(v[k], RatMean(v)), RatSub(v[k], RatMean(v)))])

\* func(array, axis=axes): the axes at the positions in axes are reduced away
ReduceAxes(func, array, axes) ==
    LET s == array.shape
        kept == Positions(s, LAMBDA j : j \notin axes)
        out == [m \in 1..Len(kept) |-> s[kept[m]]]
        Group(o) == Positions(array.data,
                        LAMBDA k : \A m \in 1..Len(kept) :
                            Coord(k - 1, s, kept[m]) = Coord(o, out, m))
    IN  [shape |-> out,
         data |-> [o \in 1..Prod(out) |->
                      Aggregate(func, [t \in 1..Len(Group(o - 1)) |->
                                          array.data[Group(o - 1)[t]]])]]

\* np.transpose(array, axes=perm): axis j of the result is axis perm[j] of array
Transpose(array, perm) ==
    LET s == array.shape
        out == [j \in 1..Len(s) |-> s[perm[j]]]
        Source(o) == [a \in 1..Len(s) |->
                         Coord(o, out, CHOOSE j \in 1..Len(s) : perm[j] = a)]
    IN  [shape |-> out,
         data |-> [o \in 1..Prod(out) |-> array.data[Flat(Source(o - 1), s, 1) + 1]]]

Map1(s, k, sign) == [j \in 1..Len(s) |-> RatAdd(s[j], RatMul(sign, k))]
Scale(s, k) == [j \in 1..Len(s) |-> RatMul(s[j], k)]

(***************************************************************************)
(* The heap.  heap.csdm, heap.dimlist, heap.dvlist, heap.dim, heap.dv and  *)
(* heap.obj (the tags lists and the application and geographic_coordinate  *)
(* dictionaries; a dictionary is a set of <<key, value>> pairs) are        *)
(* sequences of objects; a reference is an index.  A list item is          *)
(* [cls, ref]: cls is the item's class, ref its object ("str" items, which *)
(* stand for any object that is neither a Dimension nor a                  *)
(* DependentVariable, have ref 0).                                         *)
(***************************************************************************)
EmptyHeap ==
    [csdm |-> <<>>, dimlist |-> <<>>, dvlist |-> <<>>, dim |-> <<>>, dv |-> <<>>, obj |-> <<>>]

Item(cls, ref) == [cls |-> cls, ref |-> ref]

__latest_CSDM_version__ == "1.0"

\* isinstance(item, __valid_dimensions__)
__valid_dimensions__(item) == item.cls = "Dimension"

isDependentVariable(item) == item.cls = "DependentVariable"

Raise(h) == [heap |-> h, ok |-> FALSE, ret |-> 0]
Return(h, r) == [heap |-> h, ok |-> TRUE, ret |-> r]

\* Bind(v, Op) is Op(v) with v evaluated once: LET x == v IN Op(x)
Bind(v, Op(_)) == CHOOSE r \in {Op(x) : x \in {v}} : TRUE

HeapSet(h, field, ref, val) == [h EXCEPT ![field][ref] = val]
Alloc(h, field, obj) ==
    [heap |-> [h EXCEPT ![field] = Append(@, obj)], ref |-> Len(h[field]) + 1]

(***************************************************************************)
(* AbstractList, DimensionList and DependentVariableList.  A list object   *)
(* is named by lst = [field, ref] with field "dimlist" or "dvlist"; its    *)
(* value in the heap is the Python list _list.  Indices are Python's:      *)
(* 0-based, negative ones counted from the end.                            *)
(***************************************************************************)
ListOf(h, lst) == h[lst.field][lst.ref]

NormIndex(n, index) == IF index < 0 THEN index + n ELSE index
ValidIndex(n, index) == NormIndex(n, index) >= 0 /\ NormIndex(n, index) < n

\* list.insert(index, item) of Python: the index is clamped to [0, len]
PyListInsert(s, index, item) ==
    LET n == Len(s)
        i0 == NormIndex(n, index)
        i == IF i0 < 0 THEN 0 ELSE IF i0 > n THEN n ELSE i0
    IN  SubSeq(s, 1, i) \o <<item>> \o SubSeq(s, i + 1, n)

\* AbstractList.insert: self._list.insert(index, item)
insert(h, lst, index, item) ==
    Return(HeapSet(h, lst.field, lst.ref, PyListInsert(ListOf(h, lst), index, item)), 0)

\* AbstractList.append
append(h, lst, item) == insert(h, lst, Len(ListOf(h, lst)), item)

\* a __delitem__ that deletes, as list.__delitem__ does
delitemDeleting(h, lst, index) ==
    LET s == ListOf(h, lst)
        i == NormIndex(Len(s), index) + 1
    IN  IF ~ValidIndex(Len(s), index) THEN Raise(h)
        ELSE Return(HeapSet(h, lst.field, lst.ref, SubSeq(s, 1, i - 1) \o SubSeq(s, i + 1, Len(s))), 0)

\* AbstractList.__delitem__: raises unconditionally
__delitem__(h, lst, index) == Raise(h)

\* the element-type constraint of the list's class
ValidItem(lst, item) ==
    IF lst.field = "dimlist" THEN __valid_dimensions__(item) ELSE isDependentVariable(item)

\* a __setitem__ that assigns without looking at the item's type
setitemUnchecked(h, lst, index, item) ==
    IF ~ValidIndex(Len(ListOf(h, lst)), index) THEN Raise(h)
    ELSE Return(HeapSet(h, lst.field, lst.ref,
                        [ListOf(h, lst) EXCEPT ![NormIndex(Len(ListOf(h, lst)), index) + 1] = item]),
                0)

\* DimensionList.__setitem__ / DependentVariableList.__setitem__ (integer index)
__setitem__(h, lst, index, item) ==
    IF ~ValidItem(lst, item) THEN Raise(h)
    ELSE IF ~ValidIndex(Len(ListOf(h, lst)), index) THEN Raise(h)
    ELSE Return(HeapSet(h, lst.field, lst.ref,
                        [ListOf(h, lst) EXCEPT ![NormIndex(Len(ListOf(h, lst)), index) + 1] = item]),
                0)

\* MutableSequence.pop(index): v = self[index]; del self[index]; return v
pop(h, lst, index) ==
    IF ~ValidIndex(Len(ListOf(h, lst)), index) THEN Raise(h)
    ELSE __delitem__(h, lst, NormIndex(Len(ListOf(h, lst)), index))

\* item == other, as MutableSequence.index compares: the same object, or two
\* Dimensions (two DependentVariables) that are structurally equal
ItemEq(h, a, b) ==
    /\ a.cls = b.cls
    /\ \/ a.ref = b.ref
       \/ a.cls = "Dimension" /\ h.dim[a.ref] = h.dim[b.ref]
       \/ a.cls = "DependentVariable" /\ h.dv[a.ref] = h.dv[b.ref]

\* MutableSequence.index(value): the first position holding an equal item, -1 if none
IndexOf(h, s, item) ==
    IF \E i \in 1..Len(s) : ItemEq(h, s[i], item)
    THEN (CHOOSE i \in 1..Len(s) :
             ItemEq(h, s[i], item) /\ \A j \in 1..(i - 1) : ~ItemEq(h, s[j], item)) - 1
    ELSE -1

\* MutableSequence.remove(value): del self[self.index(value)]
remove(h, lst, item) ==
    IF IndexOf(h, ListOf(h, lst), item) < 0 THEN Raise(h)
    ELSE __delitem__(h, lst, IndexOf(h, ListOf(h, lst), item))

\* MutableSequence.clear(): pop until IndexError, which alone is swallowed
RECURSIVE clear(_, _)
clear(h, lst) ==
    IF Len(ListOf(h, lst)) = 0 THEN Return(h, 0)
    ELSE Bind(pop(h, lst, -1), LAMBDA r : IF r.ok THEN clear(r.heap, lst) ELSE r)

\* MutableSequence.__iadd__(values): extend, i.e. append each value in turn
RECURSIVE extend(_, _, _)
extend(h, lst, values) ==
    IF values = <<>> THEN Return(h, 0)
    ELSE Bind(append(h, lst, Head(values)),
              LAMBDA r : IF r.ok THEN extend(r.heap, lst, Tail(values)) ELSE r)


(***************************************************************************)
(* The CSDM container: construction.                                       *)
(***************************************************************************)
\* "no version given": the default None of the version argument
None == "None"

_old_incompatible_versions == {"0.0.9", "0.0.10", "0.0.11"}

\* the container's attributes as __init__ assigns them (lines 186-193, 197,
\* 209): tags, geo and app are references to a new list and two new dictionaries
NewCSDM(dimlist, dvlist, tags, geo, app, filename, version, description) ==
    [_dimensions |-> dimlist,
     _dependent_variables |-> dvlist,
     _tags |-> tags,
     _read_only |-> FALSE,
     _version |-> version,
     _timestamp |-> "",
     _geographic_coordinate |-> geo,
     _description |-> description,
     _application |-> app,
     _filename |-> filename]

dimensions(h, self) == [field |-> "dimlist", ref |-> h.csdm[self]._dimensions]
dependent_variables(h, self) == [field |-> "dvlist", ref |-> h.csdm[self]._dependent_variables]

\* a constructor that accepts every version
constructAnyVersion(h, filename, version, description) ==
    Bind(Alloc(h, "obj", <<>>), LAMBDA t :
    Bind(Alloc(t.heap, "obj", {}), LAMBDA g :
    Bind(Alloc(g.heap, "obj", {}), LAMBDA p :
    Bind(Alloc(p.heap, "dimlist", <<>>), LAMBDA a :
    Bind(Alloc(a.heap, "dvlist", <<>>), LAMBDA b :
    Bind(Alloc(b.heap, "csdm",
               NewCSDM(a.ref, b.ref, t.ref, g.ref, p.ref, filename,
                       IF version = None THEN __latest_CSDM_version__ ELSE version,
                       description)), LAMBDA c :
    Return(c.heap, c.ref)))))))

\* CSDM(filename, version, description) without dimensions or dependent
\* variables: the version test, then a container with new, empty lists and
\* dictionaries
Construct(h, filename, version, description) ==
    IF version # None /\ version \in _old_incompatible_versions THEN Raise(h)
    ELSE Bind(Alloc(h, "obj", <<>>), LAMBDA t :
         Bind(Alloc(t.heap, "obj", {}), LAMBDA g :
         Bind(Alloc(g.heap, "obj", {}), LAMBDA p :
         Bind(Alloc(p.heap, "dimlist", <<>>), LAMBDA a :
         Bind(Alloc(a.heap, "dvlist", <<>>), LAMBDA b :
         Bind(Alloc(b.heap, "csdm",
                    NewCSDM(a.ref, b.ref, t.ref, g.ref, p.ref, filename,
                            IF version = None THEN __latest_CSDM_version__ ELSE version,
                            description)), LAMBDA c :
         Return(c.heap, c.ref)))))))

\* CSDM() with no arguments
CSDM(h) == Construct(h, "", None, "")

\* every item of the dimension list has a count
HasShape(h, self) ==
    \A i \in 1..Len(ListOf(h, dimensions(h, self))) :
        __valid_dimensions__(ListOf(h, dimensions(h, self))[i])

\* CSDM.shape: the counts of the dimensions, in order
shape(h, self) ==
    LET l == ListOf(h, dimensions(h, self))
    IN  [i \in 1..Len(l) |-> h.dim[l[i].ref].count]

\* the dictionaries of a linear dimension and of a dependent variable with p
\* components; R(n) is the number n
Linear(count) == [type |-> "linear", count |-> count]
DvDict(unit, p, components) == [unit |-> unit, p |-> p, components |-> components]
R(n) == <<n, 1>>
Ramp(n) == [j \in 1..n |-> R(j)]

\* a linear dimension whose coordinates have a unit
LinearDimension(count, unit) == [type |-> "linear", count |-> count, unit |-> unit]

\* Dimension(**dict): a new Dimension object with the fields of the dictionary
NewDimension(d) == d

\* CSDM.add_dimension: arg is a Dimension object (an item) or a dictionary
add_dimension(h, self, arg) ==
    IF "cls" \in DOMAIN arg
    THEN extend(h, dimensions(h, self), <<arg>>)
    ELSE Bind(Alloc(h, "dim", NewDimension(arg)), LAMBDA a :
         extend(a.heap, dimensions(h, self), <<Item("Dimension", a.ref)>>))

\* DependentVariable(**dict): a new object; its components array is p x n
NewDependentVariable(d) ==
    [unit |-> d.unit, p |-> d.p,
     components |-> [shape |-> <<d.p, Len(d.components) \div d.p>>, data |-> d.components]]

\* DependentVariable._reshape(shape): components.reshape((p,) + shape), which
\* fails unless the sizes agree
CanReshape(dv, shp) == dv.p * Prod(shp) = Len(dv.components.data)
_reshape(dv, shp) == [dv EXCEPT !.components.shape = <<dv.p>> \o shp]

\* CSDM.add_dependent_variable: arg is a DependentVariable object (an item) or a
\* dictionary
add_dependent_variable(h, self, arg) ==
    Bind(IF "cls" \in DOMAIN arg THEN [heap |-> h, ref |-> arg.ref]
         ELSE Alloc(h, "dv", NewDependentVariable(arg)), LAMBDA a :
    IF ~HasShape(a.heap, self) THEN Raise(a.heap)
    ELSE Bind(shape(a.heap, self), LAMBDA shp :
         IF shp # <<>> /\ ~CanReshape(a.heap.dv[a.ref], Reverse(shp)) THEN Raise(a.heap)
         ELSE Bind(IF shp # <<>>
                   THEN HeapSet(a.heap, "dv", a.ref, _reshape(a.heap.dv[a.ref], Reverse(shp)))
                   ELSE a.heap, LAMBDA h1 :
              extend(h1, dependent_variables(h, self), <<Item("DependentVariable", a.ref)>>))))

\* CSDM.__init__(dimensions=dims, dependent_variables=dvs): the items are added
\* one by one with add_dimension and add_dependent_variable
RECURSIVE AddAll(_, _, _, _)
AddAll(h, self, args, isDim) ==
    IF args = <<>> THEN Return(h, self)
    ELSE Bind(IF isDim THEN add_dimension(h, self, Head(args))
              ELSE add_dependent_variable(h, self, Head(args)),
              LAMBDA r : IF r.ok THEN AddAll(r.heap, self, Tail(args), isDim) ELSE r)

__init__(h, dims, dvs) ==
    Bind(CSDM(h), LAMBDA c :
    Bind(AddAll(c.heap, c.ret, dims, TRUE), LAMBDA r :
    IF r.ok THEN AddAll(r.heap, c.ret, dvs, FALSE) ELSE r))

\* the version property: deepcopy(self._version), a string
version(h, self) == Return(h, h.csdm[self]._version)

(***************************************************************************)
(* The metadata properties.  A setter stores the object it is given (value *)
(* is a reference for tags and application); the getters of tags and       *)
(* application return the stored object itself, so that csdm.tags.append   *)
(* and csdm.application[key] = v change it in place.                       *)
(***************************************************************************)
description_setter(h, self, value) ==
    Return(HeapSet(h, "csdm", self, [h.csdm[self] EXCEPT !._description = value]), 0)
read_only_setter(h, self, value) ==
    Return(HeapSet(h, "csdm", self, [h.csdm[self] EXCEPT !._read_only = value]), 0)
tags_setter(h, self, value) ==
    Return(HeapSet(h, "csdm", self, [h.csdm[self] EXCEPT !._tags = value]), 0)
application_setter(h, self, value) ==
    Return(HeapSet(h, "csdm", self, [h.csdm[self] EXCEPT !._application = value]), 0)

\* csdm.tags.append(tag)
tags_append(h, self, tag) ==
    Return(HeapSet(h, "obj", h.csdm[self]._tags, Append(h.obj[h.csdm[self]._tags], tag)), 0)

\* csdm.application[key] = value
application_setitem(h, self, key, value) ==
    Return(HeapSet(h, "obj", h.csdm[self]._application,
                   {e \in h.obj[h.csdm[self]._application] : e[1] # key}
                       \cup {<<key, value>>}), 0)

\* self.geographic_coordinate[key] = value: the getter returns the dictionary itself
geographic_coordinate_setitem(h, self, key, value) ==
    Return(HeapSet(h, "obj", h.csdm[self]._geographic_coordinate,
                   {e \in h.obj[h.csdm[self]._geographic_coordinate] : e[1] # key}
                       \cup {<<key, value>>}), 0)

(***************************************************************************)
(* copy(): deepcopy(self).  Every object reachable from the container is   *)
(* cloned once (memo holds <<class, old, new>>), so that sharing inside    *)
(* the container is kept and nothing is shared with the original.          *)
(***************************************************************************)
RECURSIVE deepcopyItems(_, _, _, _)
deepcopyItems(h, items, out, memo) ==
    IF items = <<>> THEN [heap |-> h, out |-> out, memo |-> memo]
    ELSE LET it == Head(items)
         IN  IF it.ref = 0
             THEN deepcopyItems(h, Tail(items), Append(out, it), memo)
             ELSE IF \E m \in memo : m[1] = it.cls /\ m[2] = it.ref
             THEN LET m == CHOOSE m \in memo : m[1] = it.cls /\ m[2] = it.ref
                  IN  deepcopyItems(h, Tail(items), Append(out, Item(it.cls, m[3])), memo)
             ELSE LET field == IF it.cls = "Dimension" THEN "dim" ELSE "dv"
                  IN  Bind(Alloc(h, field, h[field][it.ref]), LAMBDA a :
                      deepcopyItems(a.heap, Tail(items), Append(out, Item(it.cls, a.ref)),
                                    memo \cup {<<it.cls, it.ref, a.ref>>}))

\* a copy that shares the lists and their objects with the original
copyShallow(h, self) ==
    Bind(Alloc(h, "csdm", h.csdm[self]), LAMBDA c : Return(c.heap, c.ref))

\* a copy that clones the lists and their items and keeps the tags,
\* application and geographic_coordinate objects of the original
copySharingMetadata(h, self) ==
    Bind(deepcopyItems(h, ListOf(h, dimensions(h, self)), <<>>, {}), LAMBDA r1 :
    Bind(Alloc(r1.heap, "dimlist", r1.out), LAMBDA a :
    Bind(deepcopyItems(a.heap, ListOf(h, dependent_variables(h, self)), <<>>, r1.memo),
         LAMBDA r2 :
    Bind(Alloc(r2.heap, "dvlist", r2.out), LAMBDA b :
    Bind(Alloc(b.heap, "csdm",
               [h.csdm[self] EXCEPT !._dimensions = a.ref, !._dependent_variables = b.ref]),
         LAMBDA c :
    Return(c.heap, c.ref))))))

\* CSDM.copy
copy(h, self) ==
    Bind(deepcopyItems(h, ListOf(h, dimensions(h, self)), <<>>, {}), LAMBDA r1 :
    Bind(Alloc(r1.heap, "dimlist", r1.out), LAMBDA a :
    Bind(deepcopyItems(a.heap, ListOf(h, dependent_variables(h, self)), <<>>, r1.memo),
         LAMBDA r2 :
    Bind(Alloc(r2.heap, "dvlist", r2.out), LAMBDA b :
    Bind(Alloc(b.heap, "obj", h.obj[h.csdm[self]._tags]), LAMBDA t :
    Bind(Alloc(t.heap, "obj", h.obj[h.csdm[self]._geographic_coordinate]), LAMBDA g :
    Bind(Alloc(g.heap, "obj", h.obj[h.csdm[self]._application]), LAMBDA p :
    Bind(Alloc(p.heap, "csdm",
               [h.csdm[self] EXCEPT !._dimensions = a.ref, !._dependent_variables = b.ref,
                                    !._tags = t.ref, !._geographic_coordinate = g.ref,
                                    !._application = p.ref]),
         LAMBDA c :
    Return(c.heap, c.ref)))))))))

(***************************************************************************)
(* split(): one new container per dependent variable.  new_object() is     *)
(* CSDM() followed by the ten slot assignments: every slot is self's       *)
(* (the same list, dictionary and tags objects), but _dependent_variables, *)
(* which is a new DependentVariableList.                                   *)
(***************************************************************************)
\* a new_object that gives the new container a dimension list of its own
newObjectOwnDimensions(h, self) ==
    Bind(CSDM(h), LAMBDA a :
    Bind(Alloc(a.heap, "dvlist", <<>>), LAMBDA b :
    Bind(Alloc(b.heap, "dimlist", ListOf(h, dimensions(h, self))), LAMBDA d :
    Return(HeapSet(d.heap, "csdm", a.ret,
                   [h.csdm[self] EXCEPT !._dependent_variables = b.ref,
                                        !._dimensions = d.ref]), a.ret))))

new_object(h, self) ==
    Bind(CSDM(h), LAMBDA a :
    Bind(Alloc(a.heap, "dvlist", <<>>), LAMBDA b :
    Return(HeapSet(b.heap, "csdm", a.ret,
                   [h.csdm[self] EXCEPT !._dependent_variables = b.ref]), a.ret)))

\* for variable in self.dependent_variables: a = new_object();
\* a._dependent_variables += [variable]; dv.append(a)
RECURSIVE SplitLoop(_, _, _, _)
SplitLoop(h, self, variables, out) ==
    IF variables = <<>> THEN Return(h, out)
    ELSE Bind(new_object(h, self), LAMBDA a :
         Bind(extend(a.heap, dependent_variables(a.heap, a.ret), <<Head(variables)>>),
              LAMBDA r :
         SplitLoop(r.heap, self, Tail(variables), Append(out, a.ret))))

\* a split that hands out the dependent variables of a clone
splitOfCopy(h, self) ==
    Bind(copy(h, self), LAMBDA c :
    SplitLoop(c.heap, c.ret, ListOf(c.heap, dependent_variables(c.heap, c.ret)), <<>>))

\* CSDM.split: returns the list of the new containers
split(h, self) == SplitLoop(h, self, ListOf(h, dependent_variables(h, self)), <<>>)

(***************************************************************************)
(* Arithmetic.  The right operand other is [kind, ref, value, unit]:       *)
(* kind "CSDM" (ref names the container), "scalar" (a bare number, value), *)
(* "Quantity" (value and unit) or "invalid" (any other object).            *)
(***************************************************************************)
OtherCSDM(ref) == [kind |-> "CSDM", ref |-> ref, value |-> One, unit |-> NoUnit]
Scalar(v) == [kind |-> "scalar", ref |-> 0, value |-> v, unit |-> NoUnit]
Quantity(v, u) == [kind |-> "Quantity", ref |-> 0, value |-> v, unit |-> u]
Invalid == [kind |-> "invalid", ref |-> 0, value |-> One, unit |-> NoUnit]

\* AbstractList.__eq__: same length and equal items, in order
ListEq(h, l1, l2) ==
    /\ Len(ListOf(h, l1)) = Len(ListOf(h, l2))
    /\ \A i \in 1..Len(ListOf(h, l1)) : ItemEq(h, ListOf(h, l1)[i], ListOf(h, l2)[i])

\* CSDM.__eq__: False for an object that is not a CSDM; otherwise the
\* conjunction of the nine comparisons of the list check
__eq__(h, self, other) ==
    IF other.kind # "CSDM" THEN Return(h, FALSE)
    ELSE Return(h,
             /\ ListEq(h, dimensions(h, self), dimensions(h, other.ref))
             /\ ListEq(h, dependent_variables(h, self), dependent_variables(h, other.ref))
             /\ h.obj[h.csdm[self]._tags] = h.obj[h.csdm[other.ref]._tags]
             /\ h.csdm[self]._read_only = h.csdm[other.ref]._read_only
             /\ h.csdm[self]._version = h.csdm[other.ref]._version
             /\ h.csdm[self]._timestamp = h.csdm[other.ref]._timestamp
             /\ h.obj[h.csdm[self]._geographic_coordinate]
                    = h.obj[h.csdm[other.ref]._geographic_coordinate]
             /\ h.csdm[self]._description = h.csdm[other.ref]._description
             /\ h.obj[h.csdm[self]._application] = h.obj[h.csdm[other.ref]._application])

\* a check of the dimensions that never raises
checkDimensionEqualitySkipped(h, self, other) == TRUE

__check_dimension_equality(h, self, other) ==
    ListEq(h, dimensions(h, self), dimensions(h, other))

__check_dependent_variable_len_equality(h, self, other) ==
    Len(ListOf(h, dependent_variables(h, self))) = Len(ListOf(h, dependent_variables(h, other)))

\* over zip(self.dependent_variables, other.dependent_variables)
__check_dependent_variable_dimensionality(h, self, other) ==
    LET l1 == ListOf(h, dependent_variables(h, self))
        l2 == ListOf(h, dependent_variables(h, other))
    IN  \A i \in 1..Len(l1) :
            i <= Len(l2) =>
                physical_type(h.dv[l1[i].ref].unit) = physical_type(h.dv[l2[i].ref].unit)

\* the three checks, in the order of the code; TRUE when none raises
__check_csdm_object_additive_compatibility(h, self, other) ==
    /\ __check_dimension_equality(h, self, other)
    /\ __check_dependent_variable_len_equality(h, self, other)
    /\ __check_dependent_variable_dimensionality(h, self, other)

\* check_scalar_object: a number or a quantity passes, anything else raises
check_scalar_object(other) == other.kind \in {"scalar", "Quantity"}


SetData(h, ref, data) == HeapSet(h, "dv", ref, [h.dv[ref] EXCEPT !.components.data = data])
SetUnit(h, ref, unit) == HeapSet(h, "dv", ref, [h.dv[ref] EXCEPT !.unit = unit])

Step(h) == [heap |-> h, ok |-> TRUE]
Stop(h) == [heap |-> h, ok |-> FALSE]

\* the loop body for a CSDM operand without the unit conversion
AddCsdmItemNoFactor(h, ref, oref, sign) ==
    LET x == h.dv[ref].components.data
        y == h.dv[oref].components.data
    IN  Step(SetData(h, ref, [j \in 1..Len(x) |-> RatAdd(x[j], RatMul(sign, y[j]))]))

\* the loop body of + and - for a CSDM operand: item is the dependent variable
\* ref, other.dependent_variables[i] the dependent variable oref
\*     factor = other.dependent_variables[i].unit.to(item.unit)
\*     item.components = item.components +/- factor * other...components
AddCsdmItem(h, ref, oref, sign) ==
    IF ~Convertible(h.dv[oref].unit, h.dv[ref].unit) THEN Stop(h)
    ELSE LET factor == UnitTo(h.dv[oref].unit, h.dv[ref].unit)
             x == h.dv[ref].components.data
             y == h.dv[oref].components.data
         IN  Step(SetData(h, ref,
                 [j \in 1..Len(x) |-> RatAdd(x[j], RatMul(sign, RatMul(factor, y[j])))]))

\* the loop body of + and - for a scalar or Quantity operand
AddScalarItem(h, ref, other, sign) ==
    IF other.kind # "Quantity"
    THEN Step(SetData(h, ref, Map1(h.dv[ref].components.data, other.value, sign)))
    ELSE IF ~Convertible(other.unit, h.dv[ref].unit) THEN Stop(h)
    ELSE LET factor == UnitTo(other.unit, h.dv[ref].unit)
         IN  Step(SetData(h, ref,
                 Map1(h.dv[ref].components.data, RatMul(factor, other.value), sign)))

\* a multiplication that scales the components and keeps the unit
MulItemKeepUnit(h, ref, other, inverse) ==
    LET k == IF inverse THEN RatInv(other.value) ELSE other.value
    IN  Step(SetData(h, ref, Scale(h.dv[ref].components.data, k)))

\* the loop body of * and / (inverse): for a Quantity,
\*     value = 1 * item.subtype._unit * other   (or (1 * unit) / other)
\*     item.subtype._unit = value.unit; components scaled by value.value
MulItem(h, ref, other, inverse) ==
    LET k == IF inverse THEN RatInv(other.value) ELSE other.value
    IN  IF other.kind # "Quantity"
        THEN Step(SetData(h, ref, Scale(h.dv[ref].components.data, k)))
        ELSE LET unit == IF inverse THEN UnitDiv(h.dv[ref].unit, other.unit)
                         ELSE UnitMul(h.dv[ref].unit, other.unit)
             IN  Step(SetData(SetUnit(h, ref, unit), ref, Scale(h.dv[ref].components.data, k)))

\* for i, item in enumerate(items): the body, until one raises
RECURSIVE Loop(_, _, _, _, _, _)
Loop(h, items, self, other, op, i) ==
    IF i > Len(items) THEN Step(h)
    ELSE Bind(IF op \in {"mul", "div"} THEN MulItem(h, items[i].ref, other, op = "div")
              ELSE IF other.kind = "CSDM"
              THEN AddCsdmItem(h, items[i].ref,
                       ListOf(h, dependent_variables(h, other.ref))[i].ref,
                       IF op = "sub" THEN <<-1, 1>> ELSE One)
              ELSE AddScalarItem(h, items[i].ref, other,
                                 IF op = "sub" THEN <<-1, 1>> ELSE One),
              LAMBDA r : IF r.ok THEN Loop(r.heap, items, self, other, op, i + 1) ELSE r)

\* the common shape of the eight operators: the checks, then the loop over the
\* dependent variables of self (in place) or of self.copy()
Operator(h, self, other, op, inplace) ==
    IF other.kind = "CSDM" /\ op \in {"mul", "div"} THEN Raise(h)
    ELSE IF other.kind = "CSDM" /\ ~__check_csdm_object_additive_compatibility(h, self, other.ref)
    THEN Raise(h)
    ELSE IF other.kind # "CSDM" /\ ~check_scalar_object(other) THEN Raise(h)
    ELSE Bind(IF inplace THEN Return(h, self) ELSE copy(h, self), LAMBDA d1 :
         Bind(Loop(d1.heap, ListOf(d1.heap, dependent_variables(d1.heap, d1.ret)),
                   d1.ret, other, op, 1), LAMBDA r :
         IF r.ok THEN Return(r.heap, d1.ret) ELSE Raise(r.heap)))

__add__(h, self, other) == Operator(h, self, other, "add", FALSE)
__iadd__(h, self, other) == Operator(h, self, other, "add", TRUE)
subAdding(h, self, other) == Operator(h, self, other, "add", FALSE)
__sub__(h, self, other) == Operator(h, self, other, "sub", FALSE)
__isub__(h, self, other) == Operator(h, self, other, "sub", TRUE)
__mul__(h, self, other) == Operator(h, self, other, "mul", FALSE)
__imul__(h, self, other) == Operator(h, self, other, "mul", TRUE)
__truediv__(h, self, other) == Operator(h, self, other, "div", FALSE)
__itruediv__(h, self, other) == Operator(h, self, other, "div", TRUE)


(***************************************************************************)
(* The numpy dispatch.  A function is named by a string; the lists hold    *)
(* the members whose values are rational on the inputs used here (exp2 on  *)
(* integers stands for the dimensionless-required family).                 *)
(***************************************************************************)
__ufunc_list_dimensionless_unit__ == {"exp2"}
__ufunc_list_unit_independent__ == {"negative", "positive", "absolute", "sign"}
__ufunc_list_applies_to_unit__ == {"square", "reciprocal"}
__function_reduction_list__ == {"max", "min", "sum", "mean", "var", "prod"}
__other_functions__ == {"real"}
__shape_manipulation_functions__ == {"transpose"}

\* the value of the elementwise function at x
Ufunc(function, x) ==
    IF function = "exp2" THEN RatPow(<<2, 1>>, x[1])
    ELSE IF function = "negative" THEN RatNeg(x)
    ELSE IF function = "absolute" THEN <<Abs(x[1]), x[2]>>
    ELSE IF function = "sign" THEN <<IF x[1] > 0 THEN 1 ELSE IF x[1] < 0 THEN -1 ELSE 0, 1>>
    ELSE IF function = "square" THEN RatMul(x, x)
    ELSE IF function = "reciprocal" THEN RatInv(x)
    ELSE x

\* the unit of function(1 * unit) for the functions that apply to the unit
UfuncUnit(function, unit) ==
    IF function = "square" THEN UnitMul(unit, unit) ELSE UnitDiv(NoUnit, unit)

\* an index argument: an integer, a tuple or list of items, or anything else;
\* an item is an integer or not (a float, a string)
IntItem(v) == [v |-> v, int |-> TRUE]
NonIntItem == [v |-> 0, int |-> FALSE]
IntIndex(v) == [kind |-> "int", items |-> <<IntItem(v)>>]
TupleIndex(items) == [kind |-> "tuple", items |-> items]
OtherIndex == [kind |-> "other", items |-> <<>>]

\* _correct_index(i, d), for an integer i: the test is i > d
_correct_index_ok(i, d) == ~((IF i < 0 THEN i + d ELSE i) > d)
\* a _correct_index that returns the dimension index itself as the array axis
correctIndexForward(i, d) == IF i < 0 THEN i + d ELSE i
_correct_index(i, d) == -1 - (IF i < 0 THEN i + d ELSE i)

\* _check_dimension_indices(d, index): the tuple of the translated indices, or
\* a TypeError or IndexError
_check_dimension_indices(d, index) ==
    IF index.kind = "other" THEN [ok |-> FALSE, err |-> "TypeError", ret |-> <<>>]
    ELSE LET bad == Positions(index.items,
                        LAMBDA k : \/ ~index.items[k].int
                                   \/ ~_correct_index_ok(index.items[k].v, d))
         IN  IF bad # <<>>
             THEN [ok |-> FALSE,
                   err |-> IF index.items[bad[1]].int THEN "IndexError" ELSE "TypeError",
                   ret |-> <<>>]
             ELSE [ok |-> TRUE, err |-> "",
                   ret |-> [k \in 1..Len(index.items) |-> _correct_index(index.items[k].v, d)]]

\* a new container that takes the dimension list of csdm itself
newSharingDimensions(h, csdm) ==
    Bind(CSDM(h), LAMBDA n :
    Return(HeapSet(n.heap, "csdm", n.ret,
                   [n.heap.csdm[n.ret] EXCEPT !._dimensions = h.csdm[csdm]._dimensions]),
           n.ret))

\* new = CSDM(); new._dimensions = deepcopy(csdm.dimensions)
NewWithDimensions(h, csdm) ==
    Bind(CSDM(h), LAMBDA n :
    Bind(deepcopyItems(n.heap, ListOf(h, dimensions(h, csdm)), <<>>, {}), LAMBDA r :
    Bind(Alloc(r.heap, "dimlist", r.out), LAMBDA a :
    Return(HeapSet(a.heap, "csdm", n.ret, [a.heap.csdm[n.ret] EXCEPT !._dimensions = a.ref]),
           n.ret))))

\* for i, variable in enumerate(csdm.dependent_variables):
\*     y = func(variable.components * factor[i]); new.add_dependent_variable({...})
\* the dictionary carries variable.unit and y.reshape(shape0, size)
RECURSIVE UfuncLoop(_, _, _, _, _, _)
UfuncLoop(h, variables, new, func, factor, i) ==
    IF i > Len(variables) THEN Return(h, new)
    ELSE LET variable == h.dv[variables[i].ref]
             y == [j \in 1..Len(variable.components.data) |->
                      Ufunc(func, RatMul(variable.components.data[j], factor[i]))]
         IN  Bind(add_dependent_variable(h, new,
                      DvDict(variable.unit, variable.components.shape[1], y)),
                  LAMBDA r : IF r.ok THEN UfuncLoop(r.heap, variables, new, func, factor, i + 1)
                             ELSE r)

\* _get_new_csdm_object_after_applying_ufunc without axis and out
_get_new_csdm_object_after_applying_ufunc(h, csdm, func, factor) ==
    Bind(NewWithDimensions(h, csdm), LAMBDA n :
    UfuncLoop(n.heap, ListOf(h, dependent_variables(h, csdm)), n.ret, func, factor, 1))

Ones(h, csdm) == [i \in 1..Len(ListOf(h, dependent_variables(h, csdm))) |-> One]

\* the dimensionless branch without the test of the physical type
dimensionlessUnchecked(h, self, function) ==
    _get_new_csdm_object_after_applying_ufunc(h, self, function,
        [i \in 1..Len(ListOf(h, dependent_variables(h, self))) |->
            UnitScale(h.dv[ListOf(h, dependent_variables(h, self))[i].ref].unit)])

\* the branch of __array_ufunc__ for __ufunc_list_dimensionless_unit__
DimensionlessBranch(h, self, function) ==
    LET variables == ListOf(h, dependent_variables(h, self))
    IN  IF \E i \in 1..Len(variables) :
               physical_type(h.dv[variables[i].ref].unit) # dimensionless
        THEN Raise(h)
        ELSE _get_new_csdm_object_after_applying_ufunc(h, self, function,
                 [i \in 1..Len(variables) |-> UnitTo(h.dv[variables[i].ref].unit, NoUnit)])

\* for i, variable in enumerate(obj.dependent_variables):
\*     scalar = function(1 * variable.unit); variable.components *= scalar.value
\*     variable.subtype._unit = scalar.unit
RECURSIVE UnitLoop(_, _, _, _)
UnitLoop(h, variables, function, i) ==
    IF i > Len(variables) THEN h
    ELSE UnitLoop(SetUnit(SetData(h, variables[i].ref,
                                  Scale(h.dv[variables[i].ref].components.data,
                                        Ufunc(function, One))),
                          variables[i].ref,
                          UfuncUnit(function, h.dv[variables[i].ref].unit)),
                  variables, function, i + 1)

\* CSDM.__array_ufunc__(function, "__call__", self)
__array_ufunc__(h, self, function) ==
    IF function \in __ufunc_list_dimensionless_unit__
    THEN DimensionlessBranch(h, self, function)
    ELSE IF function \in __ufunc_list_unit_independent__
    THEN _get_new_csdm_object_after_applying_ufunc(h, self, function, Ones(h, self))
    ELSE IF function \in __ufunc_list_applies_to_unit__
    THEN Bind(_get_new_csdm_object_after_applying_ufunc(h, self, function, Ones(h, self)),
              LAMBDA obj :
              IF ~obj.ok THEN obj
              ELSE Return(UnitLoop(obj.heap,
                                   ListOf(obj.heap, dependent_variables(obj.heap, obj.ret)),
                                   function, 1), obj.ret))
    ELSE Raise(h)


\* axis=None
NoAxis == [kind |-> "none", items |-> <<>>]

\* for i, variable in enumerate(csdm.dimensions):
\*     if -1 - i not in axis: new.add_dimension(variable.copy())
RECURSIVE KeepLoop(_, _, _, _, _)
KeepLoop(h, dims, new, axis, i) ==
    IF i >= Len(dims) THEN Return(h, new)
    ELSE IF \E k \in 1..Len(axis) : axis[k] = -1 - i
    THEN KeepLoop(h, dims, new, axis, i + 1)
    ELSE Bind(Alloc(h, "dim", h.dim[dims[i + 1].ref]), LAMBDA c :
         Bind(add_dimension(c.heap, new, Item("Dimension", c.ref)), LAMBDA r :
         IF r.ok THEN KeepLoop(r.heap, dims, new, axis, i + 1) ELSE r))

\* numpy accepts a tuple of axes when each is in range and none is repeated
ValidAxes(axis, ndim) ==
    /\ \A k \in 1..Len(axis) : ValidAxis(axis[k], ndim)
    /\ \A k \in 1..Len(axis) : \A l \in 1..Len(axis) :
           k # l => AxisPosition(axis[k], ndim) # AxisPosition(axis[l], ndim)

\* for variable in csdm.dependent_variables:
\*     y = func(variable.components, axis=axis); new.add_dependent_variable({...})
\* the dictionary carries variable.unit and y.reshape(y.shape[0], y[0].size)
RECURSIVE ReduceLoop(_, _, _, _, _, _)
ReduceLoop(h, variables, new, func, axis, i) ==
    IF i > Len(variables) THEN Return(h, new)
    ELSE LET variable == h.dv[variables[i].ref]
             ndim == Len(variable.components.shape)
         IN  IF ~ValidAxes(axis, ndim) THEN Raise(h)
             ELSE Bind(ReduceAxes(func, variable.components,
                                  {AxisPosition(axis[k], ndim) : k \in 1..Len(axis)}),
                       LAMBDA y :
                  IF y.shape = <<>> THEN Raise(h)
                  ELSE Bind(add_dependent_variable(h, new,
                                DvDict(variable.unit, y.shape[1], y.data)),
                            LAMBDA r :
                       IF r.ok THEN ReduceLoop(r.heap, variables, new, func, axis, i + 1)
                       ELSE r))

\* a reduction that, without an axis, aggregates the first dependent variable only
reductionFirstOnly(h, csdm, func, axis) ==
    LET variables == ListOf(h, dependent_variables(h, csdm))
    IN  IF axis.kind = "none"
        THEN Return(h, <<Aggregate(func, h.dv[variables[1].ref].components.data)>>)
        ELSE Raise(h)

\* _get_new_csdm_object_after_dimension_reduction_func(func, csdm, axis=axis):
\* without an axis the list of func(components) of the dependent variables
_get_new_csdm_object_after_dimension_reduction_func(h, csdm, func, axis) ==
    LET dims == ListOf(h, dimensions(h, csdm))
        variables == ListOf(h, dependent_variables(h, csdm))
    IN  IF axis.kind = "none"
        THEN Bind(CSDM(h), LAMBDA n :
             Return(n.heap, [i \in 1..Len(variables) |->
                                Aggregate(func, h.dv[variables[i].ref].components.data)]))
        ELSE Bind(_check_dimension_indices(Len(dims), axis), LAMBDA ax :
             IF ~ax.ok THEN Raise(h)
             ELSE Bind(CSDM(h), LAMBDA n :
                  Bind(KeepLoop(n.heap, dims, n.ret, ax.ret, 0), LAMBDA k :
                  IF ~k.ok THEN k
                  ELSE ReduceLoop(k.heap, variables, n.ret, func, ax.ret, 1))))

\* np.transpose accepts axes that are a permutation of the array's axes
IsPermutation(axes, ndim) ==
    /\ Len(axes) = ndim
    /\ ValidAxes(axes, ndim)

\* for variable in csdm.dependent_variables:
\*     y = func(variable.components, axes=axes); new.add_dependent_variable({...})
RECURSIVE FunctionLoop(_, _, _, _, _, _)
FunctionLoop(h, variables, new, func, axes, i) ==
    IF i > Len(variables) THEN Return(h, new)
    ELSE LET variable == h.dv[variables[i].ref]
             ndim == Len(variable.components.shape)
         IN  IF func = "transpose" /\ ~IsPermutation(axes, ndim) THEN Raise(h)
             ELSE Bind(IF func = "transpose"
                       THEN Transpose(variable.components,
                                      [j \in 1..ndim |-> AxisPosition(axes[j], ndim)])
                       ELSE variable.components,
                       LAMBDA y :
                  Bind(add_dependent_variable(h, new,
                           DvDict(variable.unit, y.shape[1], y.data)),
                       LAMBDA r :
                  IF r.ok THEN FunctionLoop(r.heap, variables, new, func, axes, i + 1)
                  ELSE r))

\* _get_new_csdm_object_after_applying_function(func, csdm, axes=axes)
_get_new_csdm_object_after_applying_function(h, csdm, func, axes) ==
    Bind(NewWithDimensions(h, csdm), LAMBDA n :
    FunctionLoop(n.heap, ListOf(h, dependent_variables(h, csdm)), n.ret, func, axes, 1))

\* the axes the transpose branch passes on: (0,) + (axes + 1), or
\* (0, -1, ..., -d) when no axes are given
TransposeAxes(d, axes) ==
    IF axes.kind = "none" THEN <<0>> \o [i \in 1..d |-> -i]
    ELSE <<0>> \o [i \in 1..Len(axes.items) |-> axes.items[i].v + 1]

\* the branch of __array_function__ for np.transpose: the new container is
\* made, its _dimensions is assigned the reordered dimensions, and the branch
\* runs into the raise statement that ends the method
TransposeBranch(h, self, axes) ==
    LET d == Len(ListOf(h, dimensions(h, self)))
        ax == TransposeAxes(d, axes)
    IN  Bind(_get_new_csdm_object_after_applying_function(h, self, "transpose", ax),
             LAMBDA r :
        IF ~r.ok THEN r
        ELSE IF \E i \in 1..d : i + 1 > Len(ax) \/ ~ValidIndex(d, ax[i + 1]) THEN Raise(r.heap)
        ELSE Bind(Alloc(r.heap, "dimlist",
                        [i \in 1..d |->
                            ListOf(r.heap, dimensions(r.heap, r.ret))[NormIndex(d, ax[i + 1]) + 1]]),
                  LAMBDA t :
             Raise(HeapSet(t.heap, "csdm", r.ret,
                           [t.heap.csdm[r.ret] EXCEPT !._dimensions = t.ref]))))

\* CSDM.__array_function__(function, types, (self,), {axis or axes: arg})
__array_function__(h, self, function, arg) ==
    IF function \in __function_reduction_list__
    THEN _get_new_csdm_object_after_dimension_reduction_func(h, self, function, arg)
    ELSE IF function \in __other_functions__
    THEN _get_new_csdm_object_after_applying_function(h, self, function, <<>>)
    ELSE IF function \in __shape_manipulation_functions__
    THEN TransposeBranch(h, self, arg)
    ELSE Raise(h)

\* the reduction methods: return np.<name>(self, axis=axis)
max(h, self, axis) == __array_function__(h, self, "max", axis)
min(h, self, axis) == __array_function__(h, self, "min", axis)
sum(h, self, axis) == __array_function__(h, self, "sum", axis)
mean(h, self, axis) == __array_function__(h, self, "mean", axis)
var(h, self, axis) == __array_function__(h, self, "var", axis)
prod(h, self, axis) == __array_function__(h, self, "prod", axis)

\* the methods whose body is raise NotImplementedError("")
argmax(h, self) == Raise(h)
argmin(h, self) == Raise(h)
ptp(h, self) == Raise(h)
trace(h, self) == Raise(h)
cumsum(h, self) == Raise(h)
cumprod(h, self) == Raise(h)

\* CSDM.transpose: the body is pass, the call returns None
transpose(h, self) == Return(h, 0)

(***************************************************************************)
(* Apodization.  func is the name of the window function, arg the quantity *)
(* the argument string stands for.                                         *)
(***************************************************************************)

\* string_to_quantity(arg): the value and the unit the string names
string_to_quantity(arg) == [value |-> arg.value, unit |-> arg.unit]

\* Dimension.coordinates of a linear dimension with increment 1 unit:
\* 0, 1, ..., count - 1 in the dimension's unit
coordinates(dimension) ==
    [value |-> [k \in 1..dimension.count |-> R(k - 1)], unit |-> dimension.unit]

\* sequence[i] of Python for a sequence of length n is defined for -n <= i < n
Subscript(n, i) == IF i < 0 THEN i + n + 1 ELSE i + 1

\* function_arguments = quantity * dimension_coordinates
function_arguments(quantity, dimension_coordinates) ==
    [value |-> Scale(dimension_coordinates.value, quantity.value),
     unit |-> UnitMul(quantity.unit, dimension_coordinates.unit)]

\* a test of the unit of the function arguments that never fails
functionArgumentsUnchecked(arguments) == TRUE

\* function_arguments.unit.physical_type == "dimensionless"
function_arguments_dimensionless(arguments) ==
    physical_type(arguments.unit) = dimensionless

\* func(function_arguments.to("").value)
apodization_vector(func, arguments) ==
    [k \in 1..Len(arguments.value) |->
        Ufunc(func, RatMul(arguments.value[k], UnitTo(arguments.unit, NoUnit)))]

\* _get_broadcast_shape(array, ndim, axis) for an array of one axis: the array
\* with ndim axes, all of length 1 but the axis at position axis
_get_broadcast_shape(array, ndim, axis) ==
    [shape |-> [j \in 1..ndim |-> IF j = Subscript(ndim, axis) THEN Len(array) ELSE 1],
     data |-> array]

\* components * weights of numpy, where weights has one axis fewer and all its
\* axes but one have length 1: the arrays are aligned at the last axis
Weighted(components, weights) ==
    LET s == components.shape
        axis == CHOOSE j \in 1..Len(weights.shape) :
                    \A m \in 1..Len(weights.shape) : m # j => weights.shape[m] = 1
    IN  [components EXCEPT !.data =
            [k \in 1..Len(components.data) |->
                RatMul(components.data[k],
                       weights.data[Coord(k - 1, s, axis + 1) + 1])]]

\* the loop over the translated indices: each turn reads the coordinates of
\* csdm.dimensions[-i - 1], tests the unit and multiplies the weights in; the
\* dependent variables are weighted one target dimension after the other
RECURSIVE ApodizationLoop(_, _, _, _, _, _)
ApodizationLoop(dims, func, quantity, index, k, components) ==
    IF k > Len(index) THEN [ok |-> TRUE, components |-> components]
    ELSE LET i == index[k]
             d == Len(dims)
         IN  IF ~(-d <= -i - 1 /\ -i - 1 < d) THEN [ok |-> FALSE, components |-> components]
             ELSE LET arguments ==
                          function_arguments(quantity,
                                             coordinates(dims[Subscript(d, -i - 1)]))
                  IN  IF ~function_arguments_dimensionless(arguments)
                      THEN [ok |-> FALSE, components |-> components]
                      ELSE ApodizationLoop(dims, func, quantity, index, k + 1,
                               [v \in 1..Len(components) |->
                                   Weighted(components[v],
                                       _get_broadcast_shape(
                                           apodization_vector(func, arguments), d, i))])

\* for variable in csdm.dependent_variables: new.add_dependent_variable({...,
\* "unit": variable.unit, "components": y.reshape(shape0, size)})
RECURSIVE AddWeighted(_, _, _, _, _)
AddWeighted(h, variables, new, y, v) ==
    IF v > Len(variables) THEN Return(h, new)
    ELSE Bind(add_dependent_variable(h, new,
                  DvDict(h.dv[variables[v].ref].unit,
                         h.dv[variables[v].ref].components.shape[1], y[v].data)),
              LAMBDA r : IF r.ok THEN AddWeighted(r.heap, variables, new, y, v + 1) ELSE r)

_get_new_csdm_object_after_apodization(h, csdm, func, arg, index) ==
    LET dims == ListOf(h, dimensions(h, csdm))
        variables == ListOf(h, dependent_variables(h, csdm))
    IN  Bind(_check_dimension_indices(Len(dims), index), LAMBDA checked :
        IF ~checked.ok THEN Raise(h)
        ELSE Bind(ApodizationLoop([j \in 1..Len(dims) |-> h.dim[dims[j].ref]], func,
                                  string_to_quantity(arg), checked.ret, 1,
                                  [v \in 1..Len(variables) |->
                                      h.dv[variables[v].ref].components]),
                  LAMBDA weighted :
             IF ~weighted.ok THEN Raise(h)
             ELSE Bind(NewWithDimensions(h, csdm), LAMBDA n :
                  AddWeighted(n.heap, variables, n.ret, weighted.components, 1))))

(***************************************************************************)
(* Serialization.  The dictionary under the key "csdm" is a record of all  *)
(* the fields a document can have; keys is the set of the keys it does     *)
(* have.  Its tags and geographic_coordinate values are the objects        *)
(* (references) the getters return.  now is the reading of the clock,      *)
(* datetime.datetime.utcnow(), formatted.                                  *)
(***************************************************************************)

\* str.strip() on the descriptions used here
BlankStrings == {"", " "}
strip(value) == IF value \in BlankStrings THEN "" ELSE value

\* Dimension.to_dict(): the canonical dictionary of a dimension
DimensionDict(h, item) == h.dim[item.ref]

\* DependentVariable._to_dict(filename, dataset_index, for_display, version): the
\* canonical dictionary of a dependent variable, made for its ordinal index
DependentVariableDict(h, item, filename, dataset_index) ==
    [unit |-> h.dv[item.ref].unit,
     p |-> h.dv[item.ref].p,
     components |-> h.dv[item.ref].components.data,
     dataset_index |-> dataset_index]

\* a _to_dict that always gives the tags key
toDictAlwaysTags(h, self, filename, update_timestamp, read_only, v, for_display, now) ==
    LET c == h.csdm[self]
        dims == ListOf(h, dimensions(h, self))
        dvs == ListOf(h, dependent_variables(h, self))
    IN  Return(h,
            [keys |-> {"version", "tags", "dimensions", "dependent_variables"},
             version |-> c._version,
             read_only |-> c._read_only,
             timestamp |-> c._timestamp,
             geographic_coordinate |-> 0,
             tags |-> c._tags,
             description |-> "",
             dimensions |-> [i \in 1..Len(dims) |-> DimensionDict(h, dims[i])],
             dependent_variables |->
                 [i \in 1..Len(dvs) |-> DependentVariableDict(h, dvs[i], filename, i - 1)]])

\* CSDM._to_dict(filename, update_timestamp, read_only, version, for_display):
\* the parameters read_only and version are not used in the body
_to_dict(h, self, filename, update_timestamp, read_only, v, for_display, now) ==
    LET c == h.csdm[self]
        dims == ListOf(h, dimensions(h, self))
        dvs == ListOf(h, dependent_variables(h, self))
        stamped == update_timestamp \/ c._timestamp # ""
        located == h.obj[c._geographic_coordinate] # {}
        tagged == h.obj[c._tags] # <<>>
        described == strip(c._description) # ""
    IN  Return(h,
            [keys |-> {"version", "dimensions", "dependent_variables"}
                          \cup (IF c._read_only THEN {"read_only"} ELSE {})
                          \cup (IF stamped THEN {"timestamp"} ELSE {})
                          \cup (IF located THEN {"geographic_coordinate"} ELSE {})
                          \cup (IF tagged THEN {"tags"} ELSE {})
                          \cup (IF described THEN {"description"} ELSE {}),
             version |-> c._version,
             read_only |-> c._read_only,
             timestamp |-> IF update_timestamp THEN now ELSE c._timestamp,
             geographic_coordinate |-> IF located THEN c._geographic_coordinate ELSE 0,
             tags |-> IF tagged THEN c._tags ELSE 0,
             description |-> IF described THEN c._description ELSE "",
             dimensions |-> [i \in 1..Len(dims) |-> DimensionDict(h, dims[i])],
             dependent_variables |->
                 [i \in 1..Len(dvs) |-> DependentVariableDict(h, dvs[i], filename, i - 1)]])

\* the document by value, as json.dumps writes it: the tags and the
\* geographic_coordinate are written out
DocValue(h, doc) ==
    [doc EXCEPT !.tags = IF "tags" \in doc.keys THEN h.obj[doc.tags] ELSE <<>>,
                !.geographic_coordinate =
                    IF "geographic_coordinate" \in doc.keys
                    THEN h.obj[doc.geographic_coordinate] ELSE {}]

\* CSDM.to_dict(update_timestamp, read_only, version): return self._to_dict()
to_dict(h, self, update_timestamp, read_only, v, now) ==
    _to_dict(h, self, None, FALSE, FALSE, __latest_CSDM_version__, FALSE, now)

\* CSDM.dumps(update_timestamp, read_only, version): json.dumps of
\* self._to_dict(update_timestamp, read_only, version), whose first three
\* parameters are filename, update_timestamp and read_only
dumps(h, self, update_timestamp, read_only, v, now) ==
    Bind(_to_dict(h, self, update_timestamp, read_only, v, __latest_CSDM_version__,
                  FALSE, now), LAMBDA r :
    Return(r.heap, DocValue(r.heap, r.ret)))

\* a save that keeps the timestamp it writes
saveStamping(h, self, filename, read_only, v, output_device, now) ==
    Return(HeapSet(h, "csdm", self, [h.csdm[self] EXCEPT !._timestamp = now]), 0)

\* CSDM.save(filename, read_only, version, output_device): the value returned
\* here is the document written to the file or to output_device; open("")
\* fails
save(h, self, filename, read_only, v, output_device, now) ==
    Bind(_to_dict(h, self, filename, FALSE, FALSE, v, FALSE, now), LAMBDA r :
    LET dictionary == r.ret
        stamped == [dictionary EXCEPT !.timestamp = now, !.keys = @ \cup {"timestamp"}]
        written == IF read_only
                   THEN [stamped EXCEPT !.read_only = TRUE, !.keys = @ \cup {"read_only"}]
                   ELSE stamped
    IN  IF output_device = None /\ filename = "" THEN Raise(r.heap)
        ELSE Return(r.heap, DocValue(r.heap, written)))

\* a container from a document: the constructor with the document's version,
\* description, dimensions and dependent variables, then the other fields
from_dict(h, doc) ==
    Bind(Construct(h, "", doc.version, doc.description), LAMBDA c :
    IF ~c.ok THEN c
    ELSE Bind(AddAll(c.heap, c.ret, doc.dimensions, TRUE), LAMBDA d :
         IF ~d.ok THEN d
         ELSE Bind(AddAll(d.heap, c.ret,
                          [i \in 1..Len(doc.dependent_variables) |->
                              DvDict(doc.dependent_variables[i].unit,
                                     doc.dependent_variables[i].p,
                                     doc.dependent_variables[i].components)], FALSE),
                   LAMBDA v :
              IF ~v.ok THEN v
              ELSE LET self == v.heap.csdm[c.ret]
                       h1 == HeapSet(v.heap, "obj", self._tags, doc.tags)
                       h2 == HeapSet(h1, "obj", self._geographic_coordinate,
                                     doc.geographic_coordinate)
                   IN  Return(HeapSet(h2, "csdm", c.ret,
                                      [self EXCEPT !._read_only = doc.read_only,
                                                   !._timestamp = doc.timestamp]),
                              c.ret))))

(***************************************************************************)
(* The state machine.  hist is the sequence of the calls made so far; a    *)
(* call records its operation, receiver, arguments, outcome (ok is FALSE   *)
(* when it raised), returned reference and the heap before the call.       *)
(***************************************************************************)
Do(op, self, args, result) ==
    \E r \in {result} :
        /\ heap' = r.heap
        /\ hist' = Append(hist, [op |-> op, self |-> self, args |-> args,
                                 ok |-> r.ok, ret |-> r.ret, pre |-> heap])

\* the heap after call i
Post(i) == IF i = Len(hist) THEN heap ELSE hist[i + 1].pre

Calls == 1..Len(hist)

(***************************************************************************)
(* The inputs of the arithmetic specification: two containers A (1) and B  *)
(* (2) built by the constructor from dictionaries, and the right operands. *)
(* Either container can be the left operand, so the pairs of recipes are   *)
(* taken up to order.                                                      *)
(***************************************************************************)

Recipes ==
    << [dims |-> <<Linear(2)>>, dvs |-> <<DvDict(U("s"), 1, <<R(1), R(2)>>)>>],
      [dims |-> <<Linear(2)>>, dvs |-> <<DvDict(U("min"), 1, <<R(3), R(-1)>>)>>],
      [dims |-> <<Linear(2)>>, dvs |-> <<DvDict(U("m"), 1, <<R(1), R(2)>>)>>],
      [dims |-> <<Linear(2)>>,
       dvs |-> <<DvDict(U("s"), 1, <<R(1), R(2)>>), DvDict(U("m"), 1, <<R(2), R(5)>>)>>],
      [dims |-> <<Linear(2)>>,
       dvs |-> <<DvDict(U("min"), 1, <<R(3), R(-1)>>), DvDict(U("s"), 1, <<R(4), R(0)>>)>>],
      [dims |-> <<Linear(1), Linear(2)>>, dvs |-> <<DvDict(U("s"), 1, <<R(1), R(2)>>)>>] >>

BareScalars == {R(2), <<-1, 2>>}
Quantities == {Quantity(R(3), U("s")), Quantity(R(2), U("min")), Quantity(<<1, 2>>, U("m"))}

\* the containers the client holds: A, B and what the calls returned
Held == {1, 2} \cup {hist[i].ret : i \in {j \in Calls : hist[j].ok /\ hist[j].ret # 0}}

Operands ==
    {OtherCSDM(c) : c \in Held} \cup {Scalar(k) : k \in BareScalars} \cup Quantities
        \cup {Invalid}

Init ==
    \E i \in 1..Len(Recipes), j \in 1..Len(Recipes) :
        /\ i <= j
        /\ \E a \in {__init__(EmptyHeap, Recipes[i].dims, Recipes[i].dvs)} :
               \E b \in {__init__(a.heap, Recipes[j].dims, Recipes[j].dvs)} :
                   heap = b.heap
        /\ hist = <<>>

CallAdd == \E self \in Held, other \in Operands :
    Len(hist) < MaxCalls /\ Do("__add__", self, other, __add__(heap, self, other))
CallIAdd == \E self \in Held, other \in Operands :
    Len(hist) < MaxCalls /\ Do("__iadd__", self, other, __iadd__(heap, self, other))
CallSub == \E self \in Held, other \in Operands :
    Len(hist) < MaxCalls /\ Do("__sub__", self, other, __sub__(heap, self, other))
CallISub == \E self \in Held, other \in Operands :
    Len(hist) < MaxCalls /\ Do("__isub__", self, other, __isub__(heap, self, other))
CallMul == \E self \in Held, other \in Operands :
    Len(hist) < MaxCalls /\ Do("__mul__", self, other, __mul__(heap, self, other))
CallIMul == \E self \in Held, other \in Operands :
    Len(hist) < MaxCalls /\ Do("__imul__", self, other, __imul__(heap, self, other))
CallTrueDiv == \E self \in Held, other \in Operands :
    Len(hist) < MaxCalls /\ Do("__truediv__", self, other, __truediv__(heap, self, other))
CallITrueDiv == \E self \in Held, other \in Operands :
    Len(hist) < MaxCalls /\ Do("__itruediv__", self, other, __itruediv__(heap, self, other))

Next ==
    \/ CallAdd \/ CallIAdd \/ CallSub \/ CallISub
    \/ CallMul \/ CallIMul \/ CallTrueDiv \/ CallITrueDiv

Spec == Init /\ [][Next]_vars


(***************************************************************************)
(* What a client observes of a container.                                  *)
(***************************************************************************)
Items(h, lst) == ListOf(h, lst)

\* the dimensions of container c, by value
DimView(h, c) ==
    LET l == Items(h, dimensions(h, c))
    IN  [i \in 1..Len(l) |-> IF l[i].cls = "Dimension" THEN h.dim[l[i].ref] ELSE l[i]]

\* the dependent variables of container c, by value
DvView(h, c) ==
    LET l == Items(h, dependent_variables(h, c))
    IN  [i \in 1..Len(l) |-> IF l[i].cls = "DependentVariable" THEN h.dv[l[i].ref] ELSE l[i]]

\* the metadata of container c, by value
MetaView(h, c) ==
    [tags |-> h.obj[h.csdm[c]._tags],
     read_only |-> h.csdm[c]._read_only,
     version |-> h.csdm[c]._version,
     timestamp |-> h.csdm[c]._timestamp,
     geographic_coordinate |-> h.obj[h.csdm[c]._geographic_coordinate],
     description |-> h.csdm[c]._description,
     application |-> h.obj[h.csdm[c]._application],
     filename |-> h.csdm[c]._filename]

\* container c is the same in heaps h1 and h2: the same attribute values and
\* list objects, the same items in the lists, the same contents of the items
\* and of the metadata objects
Same(h1, h2, c) ==
    /\ h1.csdm[c] = h2.csdm[c]
    /\ MetaView(h1, c) = MetaView(h2, c)
    /\ Items(h1, dimensions(h1, c)) = Items(h2, dimensions(h2, c))
    /\ Items(h1, dependent_variables(h1, c)) = Items(h2, dependent_variables(h2, c))
    /\ DimView(h1, c) = DimView(h2, c)
    /\ DvView(h1, c) = DvView(h2, c)

AdditiveOps == {"__add__", "__iadd__", "__sub__", "__isub__"}
NonInPlaceOps == {"__add__", "__sub__", "__mul__", "__truediv__"}
InPlaceOps == {"__iadd__", "__isub__", "__imul__", "__itruediv__"}

Min(a, b) == IF a < b THEN a ELSE b

DimsDiffer(h, a, b) == DimView(h, a) # DimView(h, b)
CountsDiffer(h, a, b) == Len(DvView(h, a)) # Len(DvView(h, b))
SomePairDiffers(h, a, b) ==
    \E i \in 1..Min(Len(DvView(h, a)), Len(DvView(h, b))) :
        physical_type(DvView(h, a)[i].unit) # physical_type(DvView(h, b)[i].unit)

\* C1: +, -, += and -= with a CSDM right operand fail whenever the dimension
\* sequences differ, or the numbers of dependent variables differ, or some
\* corresponding pair of dependent variables has units of different physical
\* type; and on such a failure neither operand is changed.
C1_IncompatibleOperandsFail ==
    \A i \in Calls :
        LET c == hist[i]
        IN  (/\ c.op \in AdditiveOps
             /\ c.args.kind = "CSDM"
             /\ \/ DimsDiffer(c.pre, c.self, c.args.ref)
                \/ CountsDiffer(c.pre, c.self, c.args.ref)
                \/ SomePairDiffers(c.pre, c.self, c.args.ref))
            => /\ ~c.ok
               /\ Same(c.pre, Post(i), c.self)
               /\ Same(c.pre, Post(i), c.args.ref)

\* an in-place addition of two containers with equal dimensions and as many
\* dependent variables, one pair of which differs in physical type, has failed
C1_Witness ==
    \E i \in Calls :
        LET c == hist[i]
        IN  /\ c.op = "__iadd__"
            /\ c.args.kind = "CSDM"
            /\ ~DimsDiffer(c.pre, c.self, c.args.ref)
            /\ ~CountsDiffer(c.pre, c.self, c.args.ref)
            /\ SomePairDiffers(c.pre, c.self, c.args.ref)
            /\ ~c.ok

\* the unit of the Quantity is convertible to the unit of some dependent
\* variables of the container, and not to the unit of all of them
ConvertibleToSomeNotAll(h, self, q) ==
    /\ \E k \in 1..Len(DvView(h, self)) : Convertible(q.unit, DvView(h, self)[k].unit)
    /\ \E k \in 1..Len(DvView(h, self)) : ~Convertible(q.unit, DvView(h, self)[k].unit)

\* C2: an in-place += or -= with a unit-bearing scalar whose unit is convertible
\* to the unit of some dependent variables of the container but not of all
\* fails and leaves the components of every dependent variable unchanged.
C2_NoPartialMutation ==
    \A i \in Calls :
        LET c == hist[i]
        IN  (/\ c.op \in {"__iadd__", "__isub__"}
             /\ c.args.kind = "Quantity"
             /\ ConvertibleToSomeNotAll(c.pre, c.self, c.args))
            => /\ ~c.ok
               /\ DvView(Post(i), c.self) = DvView(c.pre, c.self)

\* every object of container c was allocated after heap h
Fresh(h, h2, c) ==
    /\ c > Len(h.csdm)
    /\ h2.csdm[c]._dimensions > Len(h.dimlist)
    /\ h2.csdm[c]._dependent_variables > Len(h.dvlist)
    /\ h2.csdm[c]._tags > Len(h.obj)
    /\ h2.csdm[c]._geographic_coordinate > Len(h.obj)
    /\ h2.csdm[c]._application > Len(h.obj)
    /\ \A k \in 1..Len(Items(h2, dimensions(h2, c))) :
           Items(h2, dimensions(h2, c))[k].ref > Len(h.dim)
    /\ \A k \in 1..Len(Items(h2, dependent_variables(h2, c))) :
           Items(h2, dependent_variables(h2, c))[k].ref > Len(h.dv)

\* C3: +, -, * and / return a new container and leave the left operand and a
\* CSDM right operand unchanged; +=, -=, *= and /= return the container they
\* were applied to, with the same dimension list and metadata objects.
C3_CopyOrSameObject ==
    \A i \in Calls :
        LET c == hist[i]
        IN  /\ c.op \in NonInPlaceOps =>
                /\ Same(c.pre, Post(i), c.self)
                /\ c.args.kind = "CSDM" => Same(c.pre, Post(i), c.args.ref)
                /\ c.ok => Fresh(c.pre, Post(i), c.ret)
            /\ (c.op \in InPlaceOps /\ c.ok) =>
                /\ c.ret = c.self
                /\ Post(i).csdm = c.pre.csdm
                /\ Post(i).dimlist = c.pre.dimlist
                /\ Post(i).dim = c.pre.dim
                /\ Post(i).dvlist = c.pre.dvlist
                /\ Post(i).obj = c.pre.obj

\* a multiplication by a Quantity has returned a container that differs from
\* its left operand
C3_Witness ==
    \E i \in Calls :
        LET c == hist[i]
        IN  /\ c.op = "__mul__"
            /\ c.args.kind = "Quantity"
            /\ c.ok
            /\ DvView(Post(i), c.ret) # DvView(Post(i), c.self)

\* C4: when A + B or A - B on two compatible containers succeeds, the result has
\* A's dimensions and A's number of dependent variables, and its i-th dependent
\* variable has A_i's unit and the components A_i +/- f_i * B_i, f_i being the
\* conversion factor from B_i's unit to A_i's unit.
C4_SumOfContainers ==
    \A i \in Calls :
        LET c == hist[i]
            A == DvView(c.pre, c.self)
            B == DvView(c.pre, c.args.ref)
            D == DvView(Post(i), c.ret)
            sign == IF c.op = "__sub__" THEN <<-1, 1>> ELSE One
        IN  (c.op \in {"__add__", "__sub__"} /\ c.args.kind = "CSDM" /\ c.ok)
            => /\ DimView(Post(i), c.ret) = DimView(c.pre, c.self)
               /\ Len(D) = Len(A)
               /\ \A k \in 1..Len(A) :
                      /\ D[k].unit = A[k].unit
                      /\ D[k].components.shape = A[k].components.shape
                      /\ Len(D[k].components.data) = Len(A[k].components.data)
                      /\ \A j \in 1..Len(A[k].components.data) :
                             D[k].components.data[j] =
                                 RatAdd(A[k].components.data[j],
                                        RatMul(sign, RatMul(UnitTo(B[k].unit, A[k].unit),
                                                            B[k].components.data[j])))

\* a subtraction of two containers, one pair of whose dependent variables has
\* different units of one physical type, has succeeded
C4_Witness ==
    \E i \in Calls :
        LET c == hist[i]
        IN  /\ c.op = "__sub__"
            /\ c.args.kind = "CSDM"
            /\ c.ok
            /\ \E k \in 1..Len(DvView(c.pre, c.self)) :
                   DvView(c.pre, c.self)[k].unit # DvView(c.pre, c.args.ref)[k].unit

MulOps == {"__mul__", "__imul__"}
DivOps == {"__truediv__", "__itruediv__"}

\* C6: multiplying by a quantity of value x and unit v gives every dependent
\* variable of unit u the unit u.v and the components scaled by x; multiplying
\* by a bare scalar k scales the components by k and keeps the units; division
\* does the same with the unit u/v and the factors 1/x and 1/k.
C6_UnitScaling ==
    \A i \in Calls :
        LET c == hist[i]
            A == DvView(c.pre, c.self)
            D == DvView(Post(i), c.ret)
            x == IF c.op \in DivOps THEN RatInv(c.args.value) ELSE c.args.value
        IN  (c.op \in MulOps \cup DivOps /\ c.args.kind \in {"scalar", "Quantity"} /\ c.ok)
            => /\ Len(D) = Len(A)
               /\ \A k \in 1..Len(A) :
                      /\ D[k].components.data =
                             [j \in 1..Len(A[k].components.data) |->
                                 RatMul(A[k].components.data[j], x)]
                      /\ c.args.kind = "scalar" => D[k].unit = A[k].unit
                      /\ (c.args.kind = "Quantity" /\ c.op \in MulOps) =>
                             /\ physical_type(D[k].unit).time =
                                    physical_type(A[k].unit).time + physical_type(c.args.unit).time
                             /\ physical_type(D[k].unit).length =
                                    physical_type(A[k].unit).length + physical_type(c.args.unit).length
                             /\ UnitScale(D[k].unit) =
                                    RatMul(UnitScale(A[k].unit), UnitScale(c.args.unit))
                      /\ (c.args.kind = "Quantity" /\ c.op \in DivOps) =>
                             /\ physical_type(D[k].unit).time =
                                    physical_type(A[k].unit).time - physical_type(c.args.unit).time
                             /\ physical_type(D[k].unit).length =
                                    physical_type(A[k].unit).length - physical_type(c.args.unit).length
                             /\ UnitScale(D[k].unit) =
                                    RatDiv(UnitScale(A[k].unit), UnitScale(c.args.unit))

\* a division by a quantity whose unit is not the coherent one has succeeded
C6_Witness ==
    \E i \in Calls :
        LET c == hist[i]
        IN  /\ c.op = "__truediv__"
            /\ c.args.kind = "Quantity"
            /\ UnitScale(c.args.unit) # One
            /\ c.ok


(***************************************************************************)
(* The round trip (A + k) - k, and A += k followed by A -= k, for a bare   *)
(* scalar k: the second call is applied to what the first returned, with   *)
(* the same k.                                                             *)
(***************************************************************************)
RoundTripScalars == BareScalars \cup {<<5, 3>>}

RoundTripAdd == \E self \in {1, 2}, k \in RoundTripScalars :
    Len(hist) = 0 /\ Do("__add__", self, Scalar(k), __add__(heap, self, Scalar(k)))
RoundTripIAdd == \E self \in {1, 2}, k \in RoundTripScalars :
    Len(hist) = 0 /\ Do("__iadd__", self, Scalar(k), __iadd__(heap, self, Scalar(k)))
RoundTripSub ==
    /\ Len(hist) = 1 /\ hist[1].ok
    /\ Do("__sub__", hist[1].ret, hist[1].args, __sub__(heap, hist[1].ret, hist[1].args))
RoundTripISub ==
    /\ Len(hist) = 1 /\ hist[1].ok
    /\ Do("__isub__", hist[1].ret, hist[1].args, __isub__(heap, hist[1].ret, hist[1].args))

NextRoundTrip == RoundTripAdd \/ RoundTripIAdd \/ RoundTripSub \/ RoundTripISub

SpecRoundTrip == Init /\ [][NextRoundTrip]_vars

Indices == {-1, 0, 2}

\* the client's own Dimension and DependentVariable: the last ones allocated
ClientItems(h) ==
    {Item("Dimension", Len(h.dim)), Item("DependentVariable", Len(h.dv)), Item("str", 0)}

Lists == {dimensions(heap, 1), dependent_variables(heap, 1)}

ItemsOf(lst) == {ListOf(heap, lst)[k] : k \in 1..Len(ListOf(heap, lst))}

ListArgs(lst, index, item) == [lst |-> lst, index |-> index, item |-> item]

InitList ==
    \E built \in BOOLEAN :
        /\ \E c \in {IF built THEN __init__(EmptyHeap, Recipes[1].dims, Recipes[1].dvs)
                     ELSE CSDM(EmptyHeap)} :
               \E d \in {Alloc(c.heap, "dim", NewDimension(Linear(3)))} :
                   \E v \in {Alloc(d.heap, "dv",
                                   NewDependentVariable(DvDict(U("m"), 1, <<R(7), R(8)>>)))} :
                       heap = v.heap
        /\ hist = <<>>

ListAppend == \E lst \in Lists, item \in ClientItems(heap) :
    /\ Len(hist) < MaxListCalls
    /\ Do("append", 1, ListArgs(lst, 0, item), append(heap, lst, item))
ListInsert == \E lst \in Lists, index \in Indices, item \in ClientItems(heap) :
    /\ Len(hist) < MaxListCalls
    /\ Do("insert", 1, ListArgs(lst, index, item), insert(heap, lst, index, item))
ListSetItem == \E lst \in Lists, index \in Indices, item \in ClientItems(heap) :
    /\ Len(hist) < MaxListCalls
    /\ Do("__setitem__", 1, ListArgs(lst, index, item), __setitem__(heap, lst, index, item))
ListDelItem == \E lst \in Lists, index \in Indices :
    /\ Len(hist) < MaxListCalls
    /\ Do("__delitem__", 1, ListArgs(lst, index, Item("str", 0)), __delitem__(heap, lst, index))
ListPop == \E lst \in Lists, index \in Indices :
    /\ Len(hist) < MaxListCalls
    /\ Do("pop", 1, ListArgs(lst, index, Item("str", 0)), pop(heap, lst, index))
ListRemove == \E lst \in Lists : \E item \in ClientItems(heap) \cup ItemsOf(lst) :
    /\ Len(hist) < MaxListCalls
    /\ Do("remove", 1, ListArgs(lst, 0, item), remove(heap, lst, item))
ListClear == \E lst \in Lists :
    /\ Len(hist) < MaxListCalls
    /\ Do("clear", 1, ListArgs(lst, 0, Item("str", 0)), clear(heap, lst))

NextList ==
    \/ ListAppend \/ ListInsert \/ ListSetItem
    \/ ListDelItem \/ ListPop \/ ListRemove \/ ListClear

SpecList == InitList /\ [][NextList]_vars

\* the item is of the class the list is for
Fits(lst, item) ==
    \/ lst.field = "dimlist" /\ item.cls = "Dimension"
    \/ lst.field = "dvlist" /\ item.cls = "DependentVariable"

\* C7: append and insert succeed exactly when the item satisfies the list's
\* element-type constraint; a valid append makes the list one longer with the
\* item last and the earlier elements unchanged; an append or insert of any
\* other item fails and leaves the list unchanged.
C7_TypedInsertion ==
    \A i \in Calls :
        LET c == hist[i]
            before == ListOf(c.pre, c.args.lst)
            after == ListOf(Post(i), c.args.lst)
        IN  c.op \in {"append", "insert"} =>
                /\ c.ok <=> Fits(c.args.lst, c.args.item)
                /\ (c.op = "append" /\ Fits(c.args.lst, c.args.item)) =>
                       after = Append(before, c.args.item)
                /\ ~Fits(c.args.lst, c.args.item) => after = before

DeleteOps == {"__delitem__", "pop", "remove", "clear"}

\* no call has made a list of container 1 shorter
NeverShorter ==
    \A i \in Calls :
        /\ Len(ListOf(Post(i), dimensions(Post(i), 1)))
               >= Len(ListOf(hist[i].pre, dimensions(hist[i].pre, 1)))
        /\ Len(ListOf(Post(i), dependent_variables(Post(i), 1)))
               >= Len(ListOf(hist[i].pre, dependent_variables(hist[i].pre, 1)))

\* C8 as claimed: every __delitem__, pop, remove and clear fails and leaves the
\* list unchanged, and the lengths of the two lists never decrease.
C8_DeleteAlwaysFails ==
    /\ \A i \in Calls :
           hist[i].op \in DeleteOps => ~hist[i].ok /\ Post(i) = hist[i].pre
    /\ NeverShorter

\* C8, amended: every __delitem__, pop and remove fails, clear fails on every
\* list that is not empty and returns normally on an empty one; each of them
\* leaves the list unchanged, and the lengths of the two lists never decrease.
C8_DeleteNeverShrinks ==
    /\ \A i \in Calls :
           LET c == hist[i]
           IN  c.op \in DeleteOps =>
                   /\ c.op # "clear" => ~c.ok
                   /\ c.op = "clear" => (c.ok <=> ListOf(c.pre, c.args.lst) = <<>>)
                   /\ Post(i) = c.pre
    /\ NeverShorter

\* a pop of an existing element of a list, and a clear of a list that holds
\* elements, have failed
C8_Witness ==
    /\ \E i \in Calls :
           /\ hist[i].op = "pop"
           /\ ValidIndex(Len(ListOf(hist[i].pre, hist[i].args.lst)), hist[i].args.index)
           /\ ~hist[i].ok
    /\ \E i \in Calls :
           /\ hist[i].op = "clear"
           /\ ListOf(hist[i].pre, hist[i].args.lst) # <<>>
           /\ ~hist[i].ok

\* C9: replacing the element at an existing index with an item that is not of
\* the list's class fails and leaves the list unchanged; replacing it with a
\* valid item changes exactly that position and nothing else.
C9_TypedReplace ==
    \A i \in Calls :
        LET c == hist[i]
            before == ListOf(c.pre, c.args.lst)
            after == ListOf(Post(i), c.args.lst)
            k == NormIndex(Len(before), c.args.index) + 1
        IN  (c.op = "__setitem__" /\ ValidIndex(Len(before), c.args.index)) =>
                /\ ~Fits(c.args.lst, c.args.item) => ~c.ok /\ Post(i) = c.pre
                /\ Fits(c.args.lst, c.args.item) =>
                       /\ c.ok
                       /\ Len(after) = Len(before)
                       /\ after[k] = c.args.item
                       /\ \A j \in 1..Len(before) : j # k => after[j] = before[j]
                       /\ Post(i) = [c.pre EXCEPT ![c.args.lst.field][c.args.lst.ref] = after]

\* an element has been replaced by another valid item, and a replacement by an
\* item of a wrong class has failed
C9_Witness ==
    /\ \E i \in Calls :
           /\ hist[i].op = "__setitem__" /\ hist[i].ok
           /\ ListOf(Post(i), hist[i].args.lst) # ListOf(hist[i].pre, hist[i].args.lst)
    /\ \E i \in Calls :
           /\ hist[i].op = "__setitem__" /\ ~hist[i].ok
           /\ ValidIndex(Len(ListOf(hist[i].pre, hist[i].args.lst)), hist[i].args.index)
           /\ ~Fits(hist[i].args.lst, hist[i].args.item)


(***************************************************************************)
(* The construction specification: a new container, CSDM(), grows by       *)
(* add_dimension and add_dependent_variable calls in any order.  The       *)
(* client also holds a Dimension and a DependentVariable object, which it  *)
(* may pass instead of a dictionary.                                       *)
(***************************************************************************)
BuildDimensions == {Linear(1), Linear(3), Item("Dimension", 1)}

BuildDependentVariables ==
    {DvDict(U("s"), 1, Ramp(2)), DvDict(U("s"), 1, Ramp(6)),
     DvDict(U("m"), 2, Ramp(2)), DvDict(U("m"), 2, Ramp(6)),
     Item("DependentVariable", 1)}

InitBuild ==
    /\ \E c \in {CSDM(EmptyHeap)} :
           \E d \in {Alloc(c.heap, "dim", NewDimension(Linear(2)))} :
               \E v \in {Alloc(d.heap, "dv",
                               NewDependentVariable(DvDict(U("s"), 1, Ramp(2))))} :
                   heap = v.heap
    /\ hist = <<>>

AddDimension == \E arg \in BuildDimensions :
    /\ Len(hist) < MaxBuildCalls
    /\ Do("add_dimension", 1, arg, add_dimension(heap, 1, arg))
AddDependentVariable == \E arg \in BuildDependentVariables :
    /\ Len(hist) < MaxBuildCalls
    /\ Do("add_dependent_variable", 1, arg, add_dependent_variable(heap, 1, arg))

NextBuild == AddDimension \/ AddDependentVariable

SpecBuild == InitBuild /\ [][NextBuild]_vars

\* C10: in every state reached by add_dimension and add_dependent_variable
\* calls, shape is the tuple of the counts of the dimensions in order, and the
\* component array of every attached dependent variable has the shape (p,)
\* followed by reversed(shape), with product(shape) points per component.
C10_ShapeInvariant ==
    LET dims == ListOf(heap, dimensions(heap, 1))
        dvs == ListOf(heap, dependent_variables(heap, 1))
    IN  /\ shape(heap, 1) = [i \in 1..Len(dims) |-> heap.dim[dims[i].ref].count]
        /\ \A j \in 1..Len(dvs) :
               LET dv == heap.dv[dvs[j].ref]
               IN  /\ dv.components.shape = <<dv.p>> \o Reverse(shape(heap, 1))
                   /\ Len(dv.components.data) = dv.p * Prod(shape(heap, 1))


(***************************************************************************)
(* The split specification: a container built from a dictionary is split,  *)
(* copied and changed through its dimension list; the client holds the     *)
(* container, what split and copy returned, and a Dimension of its own     *)
(* (the first Dimension allocated).                                        *)
(***************************************************************************)
SplitRecipes == {1, 4}

InitSplit ==
    /\ \E d \in {Alloc(EmptyHeap, "dim", NewDimension(Linear(3)))} :
           \/ \E k \in SplitRecipes :
                  \E c \in {__init__(d.heap, Recipes[k].dims, Recipes[k].dvs)} : heap = c.heap
           \/ \E c \in {CSDM(d.heap)} : heap = c.heap
    /\ hist = <<>>

SeqRange(s) == {s[k] : k \in 1..Len(s)}

\* the containers the client holds
HeldSplit ==
    {1} \cup UNION {SeqRange(hist[i].ret) : i \in {j \in Calls : hist[j].op = "split"}}
        \cup {hist[i].ret : i \in {j \in Calls : hist[j].op = "copy" /\ hist[j].ok}}

SplitCall == \E self \in HeldSplit :
    /\ Len(hist) < MaxSplitCalls
    /\ Do("split", self, <<>>, split(heap, self))
SplitCopy == \E self \in HeldSplit :
    /\ Len(hist) < MaxSplitCalls
    /\ Do("copy", self, <<>>, copy(heap, self))
SplitAddDimension == \E self \in HeldSplit :
    /\ Len(hist) < MaxSplitCalls
    /\ Do("add_dimension", self, Linear(3), add_dimension(heap, self, Linear(3)))
SplitSetDimension == \E self \in HeldSplit :
    /\ Len(hist) < MaxSplitCalls
    /\ Do("__setitem__", self, ListArgs(dimensions(heap, self), 0, Item("Dimension", 1)),
          __setitem__(heap, dimensions(heap, self), 0, Item("Dimension", 1)))

NextSplit == SplitCall \/ SplitCopy \/ SplitAddDimension \/ SplitSetDimension

SpecSplit == InitSplit /\ [][NextSplit]_vars

DimensionMutations == {"add_dimension", "__setitem__"}

\* C11: split() on a container with N dependent variables returns N new
\* containers in dependent-variable order, each holding exactly that one
\* dependent variable, all with the dimension list object of the container that
\* was split, so that in every later state they show the same dimensions; a
\* copy() of a container is not changed by a change of the dimensions made
\* through that container or any container sharing its dimension list.
C11_SplitSharesDimensions ==
    /\ \A i \in Calls :
           LET c == hist[i]
               dvs == ListOf(c.pre, dependent_variables(c.pre, c.self))
           IN  c.op = "split" =>
                   /\ c.ok
                   /\ Len(c.ret) = Len(dvs)
                   /\ \A k \in 1..Len(c.ret) :
                          /\ c.ret[k] > Len(c.pre.csdm)
                          /\ \A l \in 1..Len(c.ret) : l # k => c.ret[l] # c.ret[k]
                          /\ ListOf(Post(i), dependent_variables(Post(i), c.ret[k])) = <<dvs[k]>>
                          /\ dimensions(heap, c.ret[k]) = dimensions(heap, c.self)
                          /\ DimView(heap, c.ret[k]) = DimView(heap, c.self)
    /\ \A j \in Calls : \A m \in Calls :
           (/\ hist[j].op = "copy" /\ hist[j].ok
            /\ m > j
            /\ hist[m].op \in DimensionMutations
            /\ dimensions(hist[m].pre, hist[m].self) = dimensions(hist[m].pre, hist[j].self))
           => Same(hist[m].pre, Post(m), hist[j].ret)

\* a container has been split in two, the first result copied, and a change of
\* the dimensions made through the second result shows in the first result and
\* in the container that was split
C11_Witness ==
    \E i \in Calls, j \in Calls, m \in Calls :
        /\ i < j /\ j < m
        /\ hist[i].op = "split" /\ Len(hist[i].ret) = 2
        /\ hist[j].op = "copy" /\ hist[j].self = hist[i].ret[1] /\ hist[j].ok
        /\ hist[m].op \in DimensionMutations /\ hist[m].self = hist[i].ret[2] /\ hist[m].ok
        /\ DimView(Post(m), hist[i].ret[1]) # DimView(hist[m].pre, hist[i].ret[1])
        /\ DimView(Post(m), hist[i].self) # DimView(hist[m].pre, hist[i].self)


(***************************************************************************)
(* The copy specification: a container built from a dictionary is copied,  *)
(* and then the original and the clone are changed in every way the        *)
(* interface offers, each time with newly made arguments.                  *)
(***************************************************************************)
InitCopy ==
    /\ \E k \in SplitRecipes :
           \E c \in {__init__(EmptyHeap, Recipes[k].dims, Recipes[k].dvs)} :
               \E t \in {tags_append(c.heap, 1, "t0")} : heap = t.heap
    /\ hist = <<>>

\* the original and, once made, the clone
CopyPair == IF Len(hist) = 0 THEN {} ELSE {1, hist[1].ret}

CopyCall ==
    /\ Len(hist) = 0
    /\ Do("copy", 1, <<>>, copy(heap, 1))
CopyAddDimension == \E self \in CopyPair :
    /\ Len(hist) < MaxCopyCalls
    /\ Do("add_dimension", self, Linear(1), add_dimension(heap, self, Linear(1)))
CopyAddDependentVariable == \E self \in CopyPair :
    /\ Len(hist) < MaxCopyCalls
    /\ Do("add_dependent_variable", self, DvDict(U("m"), 1, Ramp(2)),
          add_dependent_variable(heap, self, DvDict(U("m"), 1, Ramp(2))))
CopySetDimension == \E self \in CopyPair :
    /\ Len(hist) < MaxCopyCalls
    /\ \E d \in {Alloc(heap, "dim", NewDimension(Linear(3)))} :
           Do("__setitem__", self,
              ListArgs(dimensions(heap, self), 0, Item("Dimension", d.ref)),
              __setitem__(d.heap, dimensions(heap, self), 0, Item("Dimension", d.ref)))
CopySetDependentVariable == \E self \in CopyPair :
    /\ Len(hist) < MaxCopyCalls
    /\ \E v \in {Alloc(heap, "dv", NewDependentVariable(DvDict(U("m"), 1, Ramp(2))))} :
           Do("__setitem__", self,
              ListArgs(dependent_variables(heap, self), 0, Item("DependentVariable", v.ref)),
              __setitem__(v.heap, dependent_variables(heap, self), 0,
                          Item("DependentVariable", v.ref)))
CopyIAdd == \E self \in CopyPair :
    /\ Len(hist) < MaxCopyCalls
    /\ Do("__iadd__", self, Scalar(R(2)), __iadd__(heap, self, Scalar(R(2))))
CopyIMul == \E self \in CopyPair :
    /\ Len(hist) < MaxCopyCalls
    /\ Do("__imul__", self, Quantity(R(2), U("min")),
          __imul__(heap, self, Quantity(R(2), U("min"))))
CopyTagsAppend == \E self \in CopyPair :
    /\ Len(hist) < MaxCopyCalls
    /\ Do("tags.append", self, "t1", tags_append(heap, self, "t1"))
CopySetTags == \E self \in CopyPair :
    /\ Len(hist) < MaxCopyCalls
    /\ \E t \in {Alloc(heap, "obj", <<"t2">>)} :
           Do("tags", self, <<"t2">>, tags_setter(t.heap, self, t.ref))
CopySetApplication == \E self \in CopyPair :
    /\ Len(hist) < MaxCopyCalls
    /\ \E t \in {Alloc(heap, "obj", {<<"k", "v2">>})} :
           Do("application", self, {<<"k", "v2">>}, application_setter(t.heap, self, t.ref))
CopyApplicationSetItem == \E self \in CopyPair :
    /\ Len(hist) < MaxCopyCalls
    /\ Do("application.__setitem__", self, <<"k", "v1">>,
          application_setitem(heap, self, "k", "v1"))
CopySetDescription == \E self \in CopyPair :
    /\ Len(hist) < MaxCopyCalls
    /\ Do("description", self, "d1", description_setter(heap, self, "d1"))
CopySetReadOnly == \E self \in CopyPair :
    /\ Len(hist) < MaxCopyCalls
    /\ Do("read_only", self, TRUE, read_only_setter(heap, self, TRUE))

NextCopy ==
    \/ CopyCall
    \/ CopyAddDimension \/ CopyAddDependentVariable
    \/ CopySetDimension \/ CopySetDependentVariable
    \/ CopyIAdd \/ CopyIMul
    \/ CopyTagsAppend \/ CopySetTags \/ CopySetApplication \/ CopyApplicationSetItem
    \/ CopySetDescription \/ CopySetReadOnly

SpecCopy == InitCopy /\ [][NextCopy]_vars

\* C12: copy() returns a new container with the dimensions, dependent variables
\* and metadata of the original, by value, made of objects none of which
\* existed before; every later change made through the clone leaves the
\* original as it was, and every change made through the original leaves the
\* clone as it was.
C12_CopyIsIndependent ==
    Len(hist) >= 1 =>
        /\ hist[1].ok
        /\ Fresh(hist[1].pre, Post(1), hist[1].ret)
        /\ DimView(Post(1), hist[1].ret) = DimView(hist[1].pre, 1)
        /\ DvView(Post(1), hist[1].ret) = DvView(hist[1].pre, 1)
        /\ MetaView(Post(1), hist[1].ret) = MetaView(hist[1].pre, 1)
        /\ Same(hist[1].pre, Post(1), 1)
        /\ \A m \in 2..Len(hist) :
               /\ hist[m].self = 1 => Same(hist[m].pre, Post(m), hist[1].ret)
               /\ hist[m].self = hist[1].ret => Same(hist[m].pre, Post(m), 1)

\* the tags of the clone have been changed in place and the components of the
\* original by an in-place addition
C12_Witness ==
    /\ \E m \in Calls :
           /\ hist[m].op = "tags.append" /\ hist[m].self = hist[1].ret /\ hist[m].ok
           /\ MetaView(Post(m), hist[m].self) # MetaView(hist[m].pre, hist[m].self)
    /\ \E m \in Calls :
           /\ hist[m].op = "__iadd__" /\ hist[m].self = 1 /\ hist[m].ok
           /\ DvView(Post(m), 1) # DvView(hist[m].pre, 1)


(***************************************************************************)
(* The numpy specification: a container built from a dictionary, and the   *)
(* numpy functions and numpy-like methods applied to it.                   *)
(***************************************************************************)
NumpyRecipes ==
    << [dims |-> <<Linear(2)>>, dvs |-> <<DvDict(NoUnit, 1, Ramp(2))>>],
       [dims |-> <<Linear(2)>>, dvs |-> <<DvDict(U("pct"), 1, <<R(100), R(200)>>)>>],
       [dims |-> <<Linear(2)>>, dvs |-> <<DvDict(U("s"), 1, Ramp(2))>>],
       [dims |-> <<Linear(2)>>,
        dvs |-> <<DvDict(NoUnit, 1, Ramp(2)), DvDict(U("s"), 1, Ramp(2))>>],
       [dims |-> <<Linear(2)>>,
        dvs |-> <<DvDict(U("s"), 1, Ramp(2)), DvDict(U("pct"), 1, <<R(100), R(200)>>)>>],
       [dims |-> <<Linear(3), Linear(4)>>, dvs |-> <<DvDict(U("m"), 1, Ramp(12))>>],
       [dims |-> <<Linear(2), Linear(3)>>,
        dvs |-> <<DvDict(NoUnit, 2, Ramp(12)), DvDict(U("s"), 1, Ramp(6))>>] >>

InitNumpy ==
    /\ \E k \in 1..Len(NumpyRecipes) :
           \E c \in {__init__(EmptyHeap, NumpyRecipes[k].dims, NumpyRecipes[k].dvs)} :
               heap = c.heap
    /\ hist = <<>>

UfuncNames ==
    __ufunc_list_dimensionless_unit__ \cup __ufunc_list_unit_independent__
        \cup __ufunc_list_applies_to_unit__ \cup {"add"}

\* axis arguments: none, one or two indices
FewAxes == {NoAxis, IntIndex(0), IntIndex(-1), TupleIndex(<<IntItem(0), IntItem(1)>>)}

\* index arguments of every kind
IndexRange == -3..3
Indexes ==
    {IntIndex(i) : i \in IndexRange}
        \cup {TupleIndex(<<IntItem(1), IntItem(0)>>), TupleIndex(<<IntItem(0), IntItem(2)>>),
              TupleIndex(<<IntItem(0), IntItem(0)>>), TupleIndex(<<IntItem(0), NonIntItem>>),
              TupleIndex(<<>>), OtherIndex}

ReductionMethod(h, self, func, axis) ==
    CASE func = "max" -> max(h, self, axis)
      [] func = "min" -> min(h, self, axis)
      [] func = "sum" -> sum(h, self, axis)
      [] func = "mean" -> mean(h, self, axis)
      [] func = "var" -> var(h, self, axis)
      [] func = "prod" -> prod(h, self, axis)

StubMethod(h, self, name) ==
    CASE name = "argmax" -> argmax(h, self)
      [] name = "argmin" -> argmin(h, self)
      [] name = "ptp" -> ptp(h, self)
      [] name = "trace" -> trace(h, self)
      [] name = "cumsum" -> cumsum(h, self)
      [] name = "cumprod" -> cumprod(h, self)
      [] name = "transpose" -> transpose(h, self)

StubNames == {"argmax", "argmin", "ptp", "trace", "cumsum", "cumprod", "transpose"}

NumpyArgs(function, arg) == [function |-> function, arg |-> arg]

NumpyUfunc == \E function \in UfuncNames :
    /\ Len(hist) < MaxNumpyCalls
    /\ Do("__array_ufunc__", 1, NumpyArgs(function, NoAxis), __array_ufunc__(heap, 1, function))
NumpyReduce == \E func \in __function_reduction_list__, axis \in FewAxes :
    /\ Len(hist) < MaxNumpyCalls
    /\ Do("reduce", 1, NumpyArgs(func, axis), ReductionMethod(heap, 1, func, axis))
NumpySum == \E axis \in Indexes :
    /\ Len(hist) < MaxNumpyCalls
    /\ Do("reduce", 1, NumpyArgs("sum", axis), ReductionMethod(heap, 1, "sum", axis))
NumpyFunction == \E function \in __other_functions__ \cup {"concatenate"} :
    /\ Len(hist) < MaxNumpyCalls
    /\ Do("__array_function__", 1, NumpyArgs(function, NoAxis),
          __array_function__(heap, 1, function, NoAxis))
NumpyTranspose ==
    \E axes \in {NoAxis, TupleIndex(<<IntItem(0), IntItem(1)>>),
                 TupleIndex(<<IntItem(1), IntItem(0)>>), TupleIndex(<<IntItem(0)>>)} :
        /\ Len(hist) < MaxNumpyCalls
        /\ Do("np.transpose", 1, NumpyArgs("transpose", axes),
              __array_function__(heap, 1, "transpose", axes))
NumpyStub == \E name \in StubNames :
    /\ Len(hist) < MaxNumpyCalls
    /\ Do(name, 1, NumpyArgs(name, NoAxis), StubMethod(heap, 1, name))
NumpyCheckIndices == \E index \in Indexes :
    /\ Len(hist) < MaxNumpyCalls
    /\ \E r \in {_check_dimension_indices(Len(ListOf(heap, dimensions(heap, 1))), index)} :
           Do("_check_dimension_indices", 1, NumpyArgs("", index),
              [heap |-> heap, ok |-> r.ok, ret |-> IF r.ok THEN r.ret ELSE r.err])

NextNumpy ==
    \/ NumpyUfunc \/ NumpyReduce \/ NumpySum \/ NumpyFunction
    \/ NumpyTranspose \/ NumpyStub \/ NumpyCheckIndices

SpecNumpy == InitNumpy /\ [][NextNumpy]_vars


\* the units of the dependent variables of container c
UnitsOf(h, c) == [i \in 1..Len(DvView(h, c)) |-> DvView(h, c)[i].unit]

\* C13: a dimensionless-required elementwise operation on a container in which
\* at least one dependent variable, at any position, has a unit that is not of
\* dimensionless physical type fails; no container is made and the input
\* container is unchanged.
C13_DimensionlessRequired ==
    \A i \in Calls :
        LET c == hist[i]
        IN  (/\ c.op = "__array_ufunc__"
             /\ c.args.function \in __ufunc_list_dimensionless_unit__
             /\ \E k \in 1..Len(UnitsOf(c.pre, c.self)) :
                    physical_type(UnitsOf(c.pre, c.self)[k]) # dimensionless)
            => /\ ~c.ok
               /\ Len(Post(i).csdm) = Len(c.pre.csdm)
               /\ Same(c.pre, Post(i), c.self)

\* the operation has failed on a container whose first dependent variable is
\* dimensionless and whose second is not
C13_Witness ==
    \E i \in Calls :
        LET c == hist[i]
        IN  /\ c.op = "__array_ufunc__"
            /\ c.args.function \in __ufunc_list_dimensionless_unit__
            /\ Len(UnitsOf(c.pre, c.self)) = 2
            /\ physical_type(UnitsOf(c.pre, c.self)[1]) = dimensionless
            /\ physical_type(UnitsOf(c.pre, c.self)[2]) # dimensionless
            /\ ~c.ok

\* C14: when a dimensionless-required elementwise operation succeeds, each
\* dependent variable of the result holds the function of the original
\* components scaled by the unit's factor to a pure number, and carries the
\* dimensionless unit of factor 1, also when the input unit was percent.
C14_DimensionlessResult ==
    \A i \in Calls :
        LET c == hist[i]
            A == DvView(c.pre, c.self)
        IN  (/\ c.op = "__array_ufunc__"
             /\ c.args.function \in __ufunc_list_dimensionless_unit__
             /\ c.ok)
            => /\ Len(DvView(Post(i), c.ret)) = Len(A)
               /\ \A k \in 1..Len(A) :
                      /\ DvView(Post(i), c.ret)[k].components.data
                             = [j \in 1..Len(A[k].components.data) |->
                                   Ufunc(c.args.function,
                                         RatMul(A[k].components.data[j],
                                                UnitTo(A[k].unit, NoUnit)))]
                      /\ DvView(Post(i), c.ret)[k].unit = NoUnit

\* the sequence s without the elements at the positions in S
Without(s, S) ==
    [m \in 1..Len(Positions(s, LAMBDA j : j \notin S)) |->
        s[Positions(s, LAMBDA j : j \notin S)[m]]]

\* the dimension indices of [0, d) that the index argument names, from 1
IndexSet(index, d) ==
    {(IF index.items[k].v < 0 THEN index.items[k].v + d ELSE index.items[k].v) + 1 :
        k \in 1..Len(index.items)}

\* the index argument names a set of valid dimension indices
ValidIndexSet(index, d) ==
    /\ index.kind \in {"int", "tuple"}
    /\ \A k \in 1..Len(index.items) :
           /\ index.items[k].int
           /\ -d <= index.items[k].v /\ index.items[k].v < d
    /\ Cardinality(IndexSet(index, d)) = Len(index.items)

\* C15: a reduction along a set S of valid dimension indices returns a new
\* container whose dimensions are the original ones without those at the indices
\* in S, in their order, with as many dependent variables as the original, each
\* with the product of the remaining counts as its size per component.
C15_ReductionAlongAxes ==
    \A i \in Calls :
        LET c == hist[i]
            d == Len(DimView(c.pre, c.self))
        IN  (c.op = "reduce" /\ ValidIndexSet(c.args.arg, d)) =>
                /\ c.ok
                /\ c.ret > Len(c.pre.csdm)
                /\ DimView(Post(i), c.ret)
                       = Without(DimView(c.pre, c.self), IndexSet(c.args.arg, d))
                /\ Len(DvView(Post(i), c.ret)) = Len(DvView(c.pre, c.self))
                /\ \A k \in 1..Len(DvView(c.pre, c.self)) :
                       LET v == DvView(Post(i), c.ret)[k]
                       IN  /\ v.p = DvView(c.pre, c.self)[k].p
                           /\ Len(v.components.data) = v.p * Prod(shape(Post(i), c.ret))

\* a reduction of a container with counts (3, 4) along dimension 0 has returned
\* a container with one dimension of count 4 and components of length 4
C15_Witness ==
    \E i \in Calls :
        LET c == hist[i]
        IN  /\ c.op = "reduce" /\ c.args.arg = IntIndex(0) /\ c.ok
            /\ shape(c.pre, c.self) = <<3, 4>>
            /\ shape(Post(i), c.ret) = <<4>>
            /\ Len(DvView(Post(i), c.ret)[1].components.data) = 4

\* C16: the translation of dimension indices for d dimensions accepts exactly
\* the integers that, a negative one normalized by adding d, lie in [0, d); an
\* integer outside fails with an index error; an accepted index i becomes the
\* axis -1 - i, which is never the leading component axis of the d + 1 axes.
C16_IndexTranslation ==
    \A i \in Calls :
        LET c == hist[i]
            d == Len(DimView(c.pre, c.self))
            items == c.args.arg.items
            Norm(k) == IF items[k].v < 0 THEN items[k].v + d ELSE items[k].v
            InRange(k) == items[k].int /\ 0 <= Norm(k) /\ Norm(k) < d
        IN  c.op = "_check_dimension_indices" =>
                /\ c.ok <=> (c.args.arg.kind \in {"int", "tuple"}
                             /\ \A k \in 1..Len(items) : InRange(k))
                /\ (/\ c.args.arg.kind = "int"
                    /\ items[1].int /\ ~InRange(1)) => (~c.ok /\ c.ret = "IndexError")
                /\ c.ok => \A k \in 1..Len(items) :
                               /\ c.ret[k] = -1 - Norm(k)
                               /\ AxisPosition(c.ret[k], d + 1) # 1

\* C17: np.transpose of a container returns a container whose dependent
\* variables have the array axes permuted with the component axis kept first,
\* and whose dimensions are reordered accordingly (reversed without axes).
C17_Transpose ==
    \A i \in Calls :
        LET c == hist[i]
            d == Len(DimView(c.pre, c.self))
            order == IF c.args.arg.kind = "none" THEN [j \in 1..d |-> d + 1 - j]
                     ELSE [j \in 1..d |-> c.args.arg.items[j].v + 1]
        IN  (/\ c.op = "np.transpose"
             /\ c.args.arg.kind = "none" \/ Len(c.args.arg.items) = d)
            => /\ c.ok
               /\ DimView(Post(i), c.ret) = [j \in 1..d |-> DimView(c.pre, c.self)[order[j]]]
               /\ \A k \in 1..Len(DvView(c.pre, c.self)) :
                      DvView(Post(i), c.ret)[k].components.shape[1]
                          = DvView(c.pre, c.self)[k].p

\* C18: argmax, argmin, cumsum, cumprod, trace, ptp and the method transpose fail
\* on every call; none of them returns normally.
C18_StubsFail ==
    \A i \in Calls : hist[i].op \in StubNames => ~hist[i].ok


(***************************************************************************)
(* Construction with a version                                             *)
(***************************************************************************)

\* version arguments: none, the latest, other strings, the three rejected ones
Versions == {None, "1.0", "0.9", "0.0.12", "", "0.0.9", "0.0.10", "0.0.11"}
Filenames == {"", "a.csdf"}
Descriptions == {"", "d"}

InitVersion == heap = EmptyHeap /\ hist = <<>>

\* CSDM(filename=..., version=..., description=...)
VersionConstruct == \E filename \in Filenames, v \in Versions, description \in Descriptions :
    /\ Len(hist) < MaxVersionCalls
    /\ \E r \in {Construct(heap, filename, v, description)} :
           Do("CSDM", 0, [filename |-> filename, version |-> v, description |-> description], r)

NextVersion == VersionConstruct

SpecVersion == InitVersion /\ [][NextVersion]_vars

\* C19: constructing a container with a version of the set {0.0.9, 0.0.10,
\* 0.0.11} fails and makes no container; with any other version string it
\* succeeds and the version read back is that string; with no version given the
\* version read back is the latest, 1.0.
C19_VersionHandling ==
    \A i \in Calls :
        LET c == hist[i]
        IN  c.op = "CSDM" =>
                IF c.args.version \in {"0.0.9", "0.0.10", "0.0.11"}
                THEN ~c.ok /\ Len(Post(i).csdm) = Len(c.pre.csdm)
                ELSE /\ c.ok
                     /\ c.ret = Len(c.pre.csdm) + 1
                     /\ Len(Post(i).csdm) = Len(c.pre.csdm) + 1
                     /\ version(Post(i), c.ret).ret
                            = IF c.args.version = None THEN "1.0" ELSE c.args.version

\* a construction with version 0.0.10 has failed and one with another version
\* string, not the latest, has returned a container
C19_Witness ==
    /\ \E i \in Calls : hist[i].op = "CSDM" /\ hist[i].args.version = "0.0.10" /\ ~hist[i].ok
    /\ \E i \in Calls : /\ hist[i].op = "CSDM" /\ hist[i].args.version = "0.0.12" /\ hist[i].ok
                        /\ Post(i).csdm[hist[i].ret]._version = "0.0.12"


(***************************************************************************)
(* Equality of containers                                                  *)
(***************************************************************************)

\* CSDM(filename=..., version=..., dimensions=[...], dependent_variables=[...])
InitWith(h, filename, v, dims, dvs) ==
    Bind(Construct(h, filename, v, ""), LAMBDA c :
    Bind(AddAll(c.heap, c.ret, dims, TRUE), LAMBDA r :
    IF r.ok THEN AddAll(r.heap, c.ret, dvs, FALSE) ELSE r))

\* the second container: as the first, with another dependent variable, with one
\* more dependent variable, with one more dimension
EqRecipes == {1, 2, 4, 6}
EqVersions == {None, "0.9"}

\* container 1 is CSDM(...) of recipe 1; container 2 varies in its lists, its
\* filename and its version
InitEq ==
    /\ \E k \in EqRecipes, filename \in Filenames, v \in EqVersions :
           \E a \in {__init__(EmptyHeap, Recipes[1].dims, Recipes[1].dvs)} :
               \E b \in {InitWith(a.heap, filename, v, Recipes[k].dims, Recipes[k].dvs)} :
                   heap = b.heap
    /\ hist = <<>>

\* the right operand of ==: one of the two containers or another object
EqOthers == {OtherCSDM(1), OtherCSDM(2), Invalid}

EqCall == \E self \in {1, 2}, other \in EqOthers :
    /\ Len(hist) < MaxEqCalls
    /\ Do("__eq__", self, other, __eq__(heap, self, other))
EqTagsAppend == \E self \in {1, 2} :
    /\ Len(hist) < MaxEqCalls
    /\ Do("tags.append", self, "t0", tags_append(heap, self, "t0"))
EqSetReadOnly == \E self \in {1, 2} :
    /\ Len(hist) < MaxEqCalls
    /\ Do("read_only", self, TRUE, read_only_setter(heap, self, TRUE))
EqSetDescription == \E self \in {1, 2} :
    /\ Len(hist) < MaxEqCalls
    /\ Do("description", self, "d1", description_setter(heap, self, "d1"))
EqApplicationSetItem == \E self \in {1, 2} :
    /\ Len(hist) < MaxEqCalls
    /\ Do("application.__setitem__", self, <<"k", "v1">>,
          application_setitem(heap, self, "k", "v1"))
EqGeographicSetItem == \E self \in {1, 2} :
    /\ Len(hist) < MaxEqCalls
    /\ Do("geographic_coordinate.__setitem__", self, <<"latitude", "10">>,
          geographic_coordinate_setitem(heap, self, "latitude", "10"))

NextEq ==
    \/ EqCall
    \/ EqTagsAppend
    \/ EqSetReadOnly
    \/ EqSetDescription
    \/ EqApplicationSetItem
    \/ EqGeographicSetItem

SpecEq == InitEq /\ [][NextEq]_vars

\* C20: A == B is true for two containers exactly when their dimension
\* sequences are equal element by element, their dependent-variable sequences
\* are equal element by element, and every metadata field (version,
\* description, tags, application, geographic_coordinate, timestamp, read_only,
\* filename) is equal; sequences of different lengths are never equal; a
\* container is not equal to an object that is not a container.
C20_Equality ==
    \A i \in Calls :
        LET c == hist[i]
        IN  c.op = "__eq__" =>
                IF c.args.kind # "CSDM" THEN c.ret = FALSE
                ELSE /\ c.ret = TRUE <=>
                            /\ DimView(c.pre, c.self) = DimView(c.pre, c.args.ref)
                            /\ DvView(c.pre, c.self) = DvView(c.pre, c.args.ref)
                            /\ MetaView(c.pre, c.self) = MetaView(c.pre, c.args.ref)
                     /\ (\/ Len(DimView(c.pre, c.self)) # Len(DimView(c.pre, c.args.ref))
                         \/ Len(DvView(c.pre, c.self)) # Len(DvView(c.pre, c.args.ref)))
                            => c.ret = FALSE


\* C26: a reduction applied to a container without an axis returns a plain
\* sequence with one aggregated result per dependent variable, in the order of
\* the dependent variables, and no container; the input container is unchanged.
C26_ReductionWithoutAxis ==
    \A i \in Calls :
        LET c == hist[i]
            A == DvView(c.pre, c.self)
        IN  (c.op = "reduce" /\ c.args.arg.kind = "none") =>
                /\ c.ok
                /\ c.ret = [k \in 1..Len(A) |->
                               Aggregate(c.args.function, A[k].components.data)]
                /\ Same(c.pre, Post(i), c.self)

\* a reduction without an axis of a container with two dependent variables has
\* returned two results
C26_Witness ==
    \E i \in Calls :
        LET c == hist[i]
        IN  /\ c.op = "reduce" /\ c.args.arg.kind = "none" /\ c.ok
            /\ Len(DvView(c.pre, c.self)) = 2
            /\ Len(c.ret) = 2

\* the call returned a container
ReturnsContainer(c) ==
    /\ c.ok
    /\ \/ c.op \in {"__array_ufunc__", "__array_function__"}
       \/ c.op = "reduce" /\ c.args.arg.kind # "none"

\* C30: every dispatched operation that returns a container (the three kinds of
\* elementwise operations, reductions with an axis, real) leaves the input
\* container unchanged and returns a container whose dimension list and
\* dimension objects are not those of the input.
C30_DispatchLeavesInput ==
    \A i \in Calls :
        LET c == hist[i]
            new == Items(Post(i), dimensions(Post(i), c.ret))
        IN  ReturnsContainer(c) =>
                /\ Same(c.pre, Post(i), c.self)
                /\ c.ret > Len(c.pre.csdm)
                /\ Post(i).csdm[c.ret]._dimensions > Len(c.pre.dimlist)
                /\ \A k \in 1..Len(new) : new[k].ref > Len(c.pre.dim)

\* a unit-transforming operation has returned a container with a dimension of
\* its own and a unit other than the input's, and the input has kept its unit
C30_Witness ==
    \E i \in Calls :
        LET c == hist[i]
        IN  /\ c.op = "__array_ufunc__" /\ c.args.function = "square"
            /\ ReturnsContainer(c)
            /\ Len(DimView(Post(i), c.ret)) >= 1
            /\ DvView(Post(i), c.ret)[1].unit # DvView(c.pre, c.self)[1].unit
            /\ DvView(Post(i), c.self)[1].unit = DvView(c.pre, c.self)[1].unit


(***************************************************************************)
(* Arithmetic on the containers returned by split                          *)
(***************************************************************************)

ViewRecipes == {1, 4, 5}

InitView ==
    /\ \E k \in ViewRecipes :
           \E c \in {__init__(EmptyHeap, Recipes[k].dims, Recipes[k].dvs)} : heap = c.heap
    /\ hist = <<>>

\* the containers split has returned
Views == UNION {SeqRange(hist[i].ret) : i \in {j \in Calls : hist[j].op = "split"}}

ViewOperands ==
    {Scalar(R(2)), OtherCSDM(1), Invalid} \cup Quantities

ArithmeticMethod(h, self, other, name) ==
    CASE name = "__add__" -> __add__(h, self, other)
      [] name = "__iadd__" -> __iadd__(h, self, other)
      [] name = "__sub__" -> __sub__(h, self, other)
      [] name = "__isub__" -> __isub__(h, self, other)
      [] name = "__mul__" -> __mul__(h, self, other)
      [] name = "__imul__" -> __imul__(h, self, other)
      [] name = "__truediv__" -> __truediv__(h, self, other)
      [] name = "__itruediv__" -> __itruediv__(h, self, other)

\* container 1 is split
ViewSplit ==
    /\ Len(hist) < MaxViewCalls
    /\ Do("split", 1, <<>>, split(heap, 1))
\* view += other, -=, *=, /=
ViewInPlace == \E self \in Views, other \in ViewOperands, name \in InPlaceOps :
    /\ Len(hist) < MaxViewCalls
    /\ Do(name, self, other, ArithmeticMethod(heap, self, other, name))
\* view + other, -, *, /
ViewOperator == \E self \in Views, other \in ViewOperands, name \in NonInPlaceOps :
    /\ Len(hist) < MaxViewCalls
    /\ Do(name, self, other, ArithmeticMethod(heap, self, other, name))

NextView == ViewSplit \/ ViewInPlace \/ ViewOperator

SpecView == InitView /\ [][NextView]_vars

\* container v is the k-th container of a split of container 1 before call i
IsView(i, v, k) ==
    \E j \in 1..(i - 1) :
        /\ hist[j].op = "split" /\ hist[j].self = 1
        /\ k \in 1..Len(hist[j].ret)
        /\ hist[j].ret[k] = v

\* the operator of an in-place operator
Plain(name) ==
    CASE name = "__iadd__" -> "__add__"
      [] name = "__isub__" -> "__sub__"
      [] name = "__imul__" -> "__mul__"
      [] name = "__itruediv__" -> "__truediv__"

\* C28: the containers returned by split share their dependent-variable objects
\* with the container that was split: a successful +=, -=, *= or /= on the k-th
\* of them sets the k-th dependent variable of the original, and no other, to
\* what +, -, * or / gives for that container and operand, components and unit,
\* the unit being another one for a quantity operand of *= and /=; +, -, * and /
\* on one of them leave the original unchanged.
C28_SplitSharesDependentVariables ==
    \A i \in Calls :
        LET c == hist[i]
            before == DvView(c.pre, 1)
            after == DvView(Post(i), 1)
        IN  \A k \in 1..Len(before) :
                IsView(i, c.self, k) =>
                    /\ (c.op \in InPlaceOps /\ c.ok) =>
                           /\ Items(c.pre, dependent_variables(c.pre, c.self))[1]
                                  = Items(c.pre, dependent_variables(c.pre, 1))[k]
                           /\ after[k] = DvView(Post(i), c.self)[1]
                           /\ \E r \in {ArithmeticMethod(c.pre, c.self, c.args, Plain(c.op))} :
                                  r.ok /\ after[k] = DvView(r.heap, r.ret)[1]
                           /\ (c.op \in {"__imul__", "__itruediv__"} /\ c.args.kind = "Quantity")
                                  => after[k].unit # before[k].unit
                           /\ \A l \in 1..Len(before) : l # k => after[l] = before[l]
                    /\ c.op \in NonInPlaceOps => Same(c.pre, Post(i), 1)

\* a *= with a quantity on the second container of a split has changed the unit
\* and the components of the second dependent variable of the original
C28_Witness ==
    \E i \in Calls :
        LET c == hist[i]
        IN  /\ c.op = "__imul__" /\ c.args.kind = "Quantity" /\ c.ok
            /\ IsView(i, c.self, 2)
            /\ DvView(Post(i), 1)[2].unit # DvView(c.pre, 1)[2].unit
            /\ DvView(Post(i), 1)[2].components.data # DvView(c.pre, 1)[2].components.data


(***************************************************************************)
(* Serialization of one container                                          *)
(***************************************************************************)

\* then(r, Op): Op on the heap of r
Then(r, Op(_)) == Bind(r, LAMBDA x : Op(x.heap))

\* a document as a file holds it: one dimension, one dependent variable, a
\* timestamp and a tag
StoredDocument ==
    [keys |-> {"version", "timestamp", "tags", "dimensions", "dependent_variables"},
     version |-> "1.0", read_only |-> FALSE, timestamp |-> "T0",
     geographic_coordinate |-> {}, tags |-> <<"t0">>, description |-> "",
     dimensions |-> Recipes[1].dims,
     dependent_variables |->
         <<[unit |-> U("s"), p |-> 1, components |-> <<R(1), R(2)>>, dataset_index |-> 0]>>]

\* the container serialized: built with default metadata; with two dependent
\* variables and every metadata field set; with a blank description and an
\* application; read from a stored document; with two dimensions and tags
DictSetups == 1..5
DictSetup(k) ==
    CASE k = 1 -> __init__(EmptyHeap, Recipes[1].dims, Recipes[1].dvs)
      [] k = 2 -> Then(Then(Then(Then(Then(
                      __init__(EmptyHeap, Recipes[4].dims, Recipes[4].dvs),
                      LAMBDA h : tags_append(h, 1, "t0")),
                      LAMBDA h : read_only_setter(h, 1, TRUE)),
                      LAMBDA h : description_setter(h, 1, "d")),
                      LAMBDA h : geographic_coordinate_setitem(h, 1, "latitude", "10")),
                      LAMBDA h : application_setitem(h, 1, "k", "v1"))
      [] k = 3 -> Then(Then(
                      __init__(EmptyHeap, Recipes[1].dims, Recipes[1].dvs),
                      LAMBDA h : description_setter(h, 1, " ")),
                      LAMBDA h : application_setitem(h, 1, "k", "v1"))
      [] k = 4 -> from_dict(EmptyHeap, StoredDocument)
      [] k = 5 -> Then(__init__(EmptyHeap, Recipes[6].dims, Recipes[6].dvs),
                      LAMBDA h : tags_append(h, 1, "t0"))

InitDict ==
    /\ \E k \in DictSetups : \E r \in {DictSetup(k)} : heap = r.heap
    /\ hist = <<>>

\* the readings of the clock: one per call, in order
Clock == <<"T1", "T2", "T3", "T4">>
Now == Clock[(Len(hist) % Len(Clock)) + 1]
SerializeVersions == {"1.0", "0.9"}

SerializeArgs(update_timestamp, read_only, v, now) ==
    [update_timestamp |-> update_timestamp, read_only |-> read_only, version |-> v,
     now |-> now]

DictToDict == \E update_timestamp \in BOOLEAN, read_only \in BOOLEAN, v \in SerializeVersions :
    /\ Len(hist) < MaxDictCalls
    /\ Do("to_dict", 1, SerializeArgs(update_timestamp, read_only, v, Now),
          to_dict(heap, 1, update_timestamp, read_only, v, Now))
DictDumps == \E update_timestamp \in BOOLEAN, read_only \in BOOLEAN, v \in SerializeVersions :
    /\ Len(hist) < MaxDictCalls
    /\ Do("dumps", 1, SerializeArgs(update_timestamp, read_only, v, Now),
          dumps(heap, 1, update_timestamp, read_only, v, Now))
DictSave == \E filename \in Filenames, read_only \in BOOLEAN, output_device \in {None, "out"} :
    /\ Len(hist) < MaxDictCalls
    /\ Do("save", 1, [filename |-> filename, read_only |-> read_only, version |-> "1.0",
                      output_device |-> output_device, now |-> Now,
                      update_timestamp |-> FALSE],
          save(heap, 1, filename, read_only, "1.0", output_device, Now))

\* the dictionaries to_dict has returned
Returned == {i \in Calls : hist[i].op = "to_dict" /\ hist[i].ok}

\* d["csdm"]["tags"].append("t1") on a returned dictionary d
DictReturnedTagsAppend == \E i \in Returned :
    /\ Len(hist) < MaxDictCalls
    /\ "tags" \in hist[i].ret.keys
    /\ Do("returned.tags.append", 1, i,
          Return(HeapSet(heap, "obj", hist[i].ret.tags,
                         Append(heap.obj[hist[i].ret.tags], "t1")), 0))
\* d["csdm"]["geographic_coordinate"]["altitude"] = "1" on a returned dictionary d
DictReturnedGeographicSetItem == \E i \in Returned :
    /\ Len(hist) < MaxDictCalls
    /\ "geographic_coordinate" \in hist[i].ret.keys
    /\ Do("returned.geographic_coordinate.__setitem__", 1, i,
          Return(HeapSet(heap, "obj", hist[i].ret.geographic_coordinate,
                         heap.obj[hist[i].ret.geographic_coordinate]
                             \cup {<<"altitude", "1">>}), 0))

NextDict ==
    \/ DictToDict
    \/ DictDumps
    \/ DictSave
    \/ DictReturnedTagsAppend
    \/ DictReturnedGeographicSetItem

SpecDict == InitDict /\ [][NextDict]_vars

\* the document of call i by value, at the time the call returned
Emitted(i) == IF hist[i].op = "to_dict" THEN DocValue(Post(i), hist[i].ret) ELSE hist[i].ret


C22_TimestampPresence ==
    \A i \in Calls :
        LET c == hist[i]
        IN  c.op \in {"to_dict", "dumps"} =>
                ("timestamp" \in c.ret.keys
                     <=> (MetaView(c.pre, c.self).timestamp # "" \/ c.args.update_timestamp))

\* C23: with the read_only argument true, to_dict, dumps and save each give a
\* document whose read_only is true, whatever the container's flag.
C23_ReadOnlyArgument ==
    \A i \in Calls :
        LET c == hist[i]
        IN  (c.op \in {"to_dict", "dumps", "save"} /\ c.ok /\ c.args.read_only) =>
                ("read_only" \in c.ret.keys /\ c.ret.read_only = TRUE)

\* C25: save writes a document with the timestamp of the time of the call and
\* leaves the container as it was, timestamp included, for every read_only
\* argument.
C25_SaveLeavesContainer ==
    \A i \in Calls :
        LET c == hist[i]
        IN  c.op = "save" =>
                /\ Same(c.pre, Post(i), c.self)
                /\ Post(i) = c.pre
                /\ c.ok => /\ "timestamp" \in c.ret.keys
                           /\ c.ret.timestamp = c.args.now

\* save with read_only true has written a document with a read_only and a new
\* timestamp for a container whose flag is false and whose timestamp is another
C25_Witness ==
    \E i \in Calls :
        LET c == hist[i]
        IN  /\ c.op = "save" /\ c.ok /\ c.args.read_only
            /\ c.ret.read_only = TRUE
            /\ MetaView(Post(i), 1).read_only = FALSE
            /\ MetaView(Post(i), 1).timestamp = "T0"
            /\ c.ret.timestamp # "T0"

\* C29: the mapping to_dict returns shares no storage with the container: a
\* change of the returned tags list or geographic_coordinate mapping leaves the
\* container's tags and geographic_coordinate as they were, and two to_dict
\* calls with no operation on the container in between return equal mappings.
C29_ToDictSharesNothing ==
    /\ \A i \in Calls :
           hist[i].op \in {"returned.tags.append",
                           "returned.geographic_coordinate.__setitem__"}
               => MetaView(Post(i), 1) = MetaView(hist[i].pre, 1)
    /\ \A i \in Calls : \A j \in Calls :
           (/\ i < j
            /\ hist[i].op = "to_dict" /\ hist[j].op = "to_dict"
            /\ \A l \in (i + 1)..(j - 1) :
                   hist[l].op \in {"returned.tags.append",
                                   "returned.geographic_coordinate.__setitem__"})
               => [Emitted(i) EXCEPT !.timestamp = ""] = [Emitted(j) EXCEPT !.timestamp = ""]


(***************************************************************************)
(* The round trip of one container through its document                    *)
(***************************************************************************)

InitTrip ==
    /\ \E k \in DictSetups : \E r \in {DictSetup(k)} : heap = r.heap
    /\ hist = <<>>

\* the containers rebuilt from a returned document
Rebuilt == {i \in Calls : hist[i].op = "from_dict" /\ hist[i].ok}

TripToDict == \E update_timestamp \in BOOLEAN, read_only \in BOOLEAN, v \in SerializeVersions :
    /\ Len(hist) < MaxTripCalls
    /\ Do("to_dict", 1, SerializeArgs(update_timestamp, read_only, v, Now),
          to_dict(heap, 1, update_timestamp, read_only, v, Now))
TripFromDict == \E i \in Returned :
    /\ Len(hist) < MaxTripCalls
    /\ Do("from_dict", 0, i, from_dict(heap, DocValue(heap, hist[i].ret)))
TripEq == \E j \in Rebuilt :
    /\ Len(hist) < MaxTripCalls
    /\ Do("__eq__", 1, OtherCSDM(hist[j].ret), __eq__(heap, 1, OtherCSDM(hist[j].ret)))

NextTrip ==
    \/ TripToDict
    \/ TripFromDict
    \/ TripEq

SpecTrip == InitTrip /\ [][NextTrip]_vars

\* C24: for every container X with at least one Linear dimension and at least
\* one scalar dependent variable, the container rebuilt from to_dict(X) is
\* equal to X under __eq__ (no timestamp is regenerated on the way, so none is
\* excluded).
C24_RoundTrip ==
    /\ \A i \in Calls : hist[i].op = "from_dict" => hist[i].ok
    /\ \A i \in Calls :
           (hist[i].op = "__eq__" /\ \E j \in Rebuilt : hist[j].ret = hist[i].args.ref)
               => hist[i].ret = TRUE


(***************************************************************************)
(* Apodization of one container                                            *)
(***************************************************************************)

ApodRecipes ==
    << [dims |-> <<LinearDimension(2, U("s"))>>, dvs |-> <<DvDict(U("m"), 1, Ramp(2))>>],
       [dims |-> <<LinearDimension(3, U("m"))>>,
        dvs |-> <<DvDict(U("m"), 1, Ramp(3)), DvDict(NoUnit, 1, <<R(2), R(-1), R(4)>>)>>],
       [dims |-> <<LinearDimension(2, U("s")), LinearDimension(3, U("s"))>>,
        dvs |-> <<DvDict(U("s"), 1, Ramp(6))>>],
       [dims |-> <<LinearDimension(2, U("s")), LinearDimension(3, U("m"))>>,
        dvs |-> <<DvDict(NoUnit, 1, Ramp(6)), DvDict(U("pct"), 1, Ramp(6))>>] >>

InitApod ==
    /\ \E k \in 1..Len(ApodRecipes) :
           \E c \in {__init__(EmptyHeap, ApodRecipes[k].dims, ApodRecipes[k].dvs)} :
               heap = c.heap
    /\ hist = <<>>

\* the window functions and the arguments: "2 1/s", "50 pct/s", "1 1/m", "2"
WindowFunctions == {"square", "negative"}
ApodArguments ==
    {Quantity(R(2), UnitDiv(NoUnit, U("s"))), Quantity(R(50), UnitDiv(U("pct"), U("s"))),
     Quantity(R(1), UnitDiv(NoUnit, U("m"))), Quantity(R(2), NoUnit)}
ApodIndices ==
    {IntIndex(0), IntIndex(1), IntIndex(-1), IntIndex(2), IntIndex(-3),
     TupleIndex(<<IntItem(0), IntItem(1)>>), TupleIndex(<<IntItem(-1), IntItem(0)>>),
     TupleIndex(<<IntItem(0), NonIntItem>>), OtherIndex}

\* the containers at hand: the first one and the results of the calls
ApodHeld == {1} \cup {hist[i].ret : i \in {j \in Calls : hist[j].ok}}

Apodize == \E self \in ApodHeld, func \in WindowFunctions, arg \in ApodArguments,
              index \in ApodIndices :
    /\ Len(hist) < MaxApodCalls
    /\ Do("apodization", self, [func |-> func, arg |-> arg, index |-> index],
          _get_new_csdm_object_after_apodization(heap, self, func, arg, index))

NextApod == Apodize

SpecApod == InitApod /\ [][NextApod]_vars

\* the dimensions the index argument of call c names
Targets(c) == {DimView(c.pre, c.self)[t] : t \in IndexSet(c.args.index, Len(DimView(c.pre, c.self)))}

\* C27: apodization along valid dimension indices fails when the product of
\* the argument and the coordinates of one of the named dimensions is not of
\* dimensionless physical type; otherwise it returns a new container whose
\* dimensions equal the input's and whose dependent variables are as many, in
\* the same order and with the same units.  The input is unchanged either way.
C27_Apodization ==
    \A i \in Calls :
        LET c == hist[i]
            d == Len(DimView(c.pre, c.self))
        IN  (c.op = "apodization" /\ ValidIndexSet(c.args.index, d)) =>
                /\ c.ok <=> \A dimension \in Targets(c) :
                                physical_type(UnitMul(c.args.arg.unit, dimension.unit))
                                    = dimensionless
                /\ Same(c.pre, Post(i), c.self)
                /\ ~c.ok => Post(i) = c.pre
                /\ c.ok =>
                       /\ Fresh(c.pre, Post(i), c.ret)
                       /\ DimView(Post(i), c.ret) = DimView(c.pre, c.self)
                       /\ Len(DvView(Post(i), c.ret)) = Len(DvView(c.pre, c.self))
                       /\ \A v \in 1..Len(DvView(c.pre, c.self)) :
                              /\ DvView(Post(i), c.ret)[v].unit = DvView(c.pre, c.self)[v].unit
                              /\ DvView(Post(i), c.ret)[v].components.shape
                                     = DvView(c.pre, c.self)[v].components.shape

\* the square window with the argument 50 pct/s along the dimension 0 (in s) of
\* a container with two dimensions has weighted the components 1..6 by 0 and
\* 1/4
C27_Witness ==
    \E i \in Calls :
        /\ hist[i].op = "apodization" /\ hist[i].ok /\ hist[i].self = 1
        /\ hist[i].args.index = IntIndex(0)
        /\ hist[i].args.func = "square"
        /\ hist[i].args.arg = Quantity(R(50), UnitDiv(U("pct"), U("s")))
        /\ Len(DimView(hist[i].pre, 1)) = 2
        /\ DvView(Post(i), hist[i].ret)[1].components.data
               = <<R(0), <<1, 2>>, R(0), R(1), R(0), <<3, 2>>>>

====
